---- MODULE Spec2Model ----
(***************************************************************************)
(* landez: tile list enumeration (proj.py, tiles.py), the tile gathering   *)
(* pipeline of TilesManager and the archive builder MBTilesBuilder         *)
(* (tiles.py), modelled as state machines.                                 *)
(*                                                                         *)
(* The cache objects (cache.py) and the archive reader (sources.py) are    *)
(* modelled next to them.                                                  *)
(*                                                                         *)
(* The specifications share the variables:                                 *)
(*   SpecTiles    calls of TilesManager.tileslist on drawn inputs          *)
(*   SpecManager  tile requests (prepare_tile) and clean on a TilesManager *)
(*   Spec         add_coverage / run / clean on an MBTilesBuilder          *)
(*   SpecDisk     basename, scheme and tile_file on a Disk cache           *)
(*   SpecCache    save / read / remove / clean on a Disk or Dummy cache    *)
(*   SpecNoCache  a Dummy cache in use, or a manager built with cache=False*)
(*   SpecReader   calls of MBTilesReader.tile on drawn archives            *)
(*   SpecSave     two threads in Disk.save on distinct coordinates         *)
(*   SpecPipeline add_layer / add_filter / tile: layers blended, filters   *)
(*                applied, the folder of the cache renamed                 *)
(*   SpecGrid     calls of grid_tiles on drawn bounding boxes              *)
(*   SpecDownload the tile URL formed from a list of subdomains            *)
(*   SpecCustom   CustomTileSet next to GoogleProjection on one input      *)
(*   SpecTrip     tile origin -> unproject_pixels -> tile_at               *)
(*   SpecProj     a sequence of tileslist calls on one manager             *)
(*   SpecCoverage a call of MBTilesReader.find_coverage, step by step      *)
(*   SpecCoverageLive  the same, the calling thread scheduled fairly       *)
(***************************************************************************)
EXTENDS Integers, Sequences, FiniteSets, TLC

VARIABLES
    \* configuration, fixed at construction (TilesManager.__init__)
    cache,          \* self.cache
    same_dir,       \* self.tiles_dir == self.tmp_dir
    source,         \* "remote" (self.remote), "mbtiles" (self.mbtiles_file), "render"
    url_ok,         \* FALSE: tiles_url holds a placeholder other than z,x,y,s,size
    \* file system
    fs,             \* fs[d] for d in {"tmp","tiles"}: [exists, files]
    dest,           \* self.filepath: [exists, tiles]
    \* object fields
    bboxes,         \* self._bboxes
    nbtiles,        \* self.nbtiles
    rendered,       \* self.rendered
    proj_maxlevel,  \* self.proj.maxlevel
    \* observations of the last operation
    op,             \* its name: "init", "add", "run", "clean", "tile", "tileslist"
    result,         \* how it ended: "ok", "skipped" or the exception raised
    attempts,       \* network attempts it made
    asked,          \* the tile a tile request was for (<<>> for another operation)
    drawn,          \* what the environment gave the source a tile request invoked
                    \* (0 when it invoked none)
    fetched,        \* tiles for which it invoked the source
    packaged,       \* whether it invoked disk_to_mbtiles
    ok_fetched,     \* tiles fetched successfully since the last operation that
                    \* was no tile request
    pre,            \* how run was called: force, whether the destination existed,
                    \* and the tiles the cache held once the staging was cleaned
    \* arguments and outcome of the last TilesManager.tileslist call
    tl_bbox, tl_zooms, tl_out,
    \* a cache object (cache.py) and the file system under it
    d_kind,         \* "disk" (Disk) or "dummy" (Dummy)
    d_basefolder,   \* self._basefolder
    d_basename,     \* self._basename
    d_folder,       \* self.folder
    d_scheme,       \* self._scheme
    d_given,        \* the scheme value last accepted, as it was given
    d_fs,           \* [dirs, files]: the directories, and <<path, body>> per file
    d_saved,        \* per coordinate, the body of the last save that no remove
                    \* or clean followed ("None" when there is none)
    d_arg,          \* argument of the last cache operation
    d_out,          \* what the last cache operation returned
    \* an MBTiles archive open in an MBTilesReader (sources.py)
    mb_tiles,       \* the rows of its table tiles:
                    \* <<zoom_level, tile_column, tile_row, tile_data>>
    mb_arg,         \* (z, x, y) of the last call of tile
    mb_out,         \* what it returned ("None" when it raised)
    \* workers that each execute one Disk.save on the cache object
    workers,        \* per worker: [pc, t, body], pc the step it is to take
                    \* ("isdir", "makedirs", "write") or how it ended
                    \* ("done", "OSError")
    \* the pipeline of a TilesManager: its layers and filters
    layers,         \* self._layers: <<basename of the layer, opacity>> each
    filters,        \* self._filters
    t_out,          \* what the last call of tile returned (<<>> when it raised)
    t_drawn,        \* what the sources gave during that call: [base, layers]
    \* a call of a function that keeps no state
    call_arg,       \* its arguments
    call_out,       \* what it returned, or the exception it raised
    \* a call of MBTilesReader.find_coverage in progress
    fc              \* [pc, zoom, rows, pos, t, previous, min, rect, bbox]: rows the
                    \* result of the query, pos the number of rows fetched

vars == <<cache, same_dir, source, url_ok, fs, dest, bboxes, nbtiles, rendered,
          proj_maxlevel, op, result, attempts, asked, drawn, fetched, packaged,
          ok_fetched, pre, tl_bbox, tl_zooms, tl_out,
          d_kind, d_basefolder, d_basename, d_folder, d_scheme, d_given,
          d_fs, d_saved, d_arg, d_out, mb_tiles, mb_arg, mb_out,
          workers, layers, filters, t_out, t_drawn, call_arg, call_out, fc>>

-----------------------------------------------------------------------------
(* Program constants *)

DEFAULT_TILE_SIZE == 256
DOWNLOAD_RETRIES == 3

(* Bounds of the model *)

MaxZoom == 2        \* zoom levels drawn for tileslist are 0..MaxZoom
MaxLevels == 2      \* longest zoom list drawn for tileslist
MaxCoverages == 2   \* most coverages registered on one builder
MaxRendered == 3    \* a TilesManager stops being queried once rendered reaches it

-----------------------------------------------------------------------------
(* Arithmetic of Python 2 *)

\* int(a / b) on floats holding integers: truncation toward zero
TruncDiv(a, b) == IF a >= 0 THEN a \div b ELSE -((-a) \div b)

\* round(n / d): to the nearest integer, halves away from zero
Round(n, d) == IF n >= 0 THEN (2 * n + d) \div (2 * d)
                         ELSE -((2 * (-n) + d) \div (2 * d))

Abs(a) == IF a >= 0 THEN a ELSE -a

RECURSIVE Concat(_)
Concat(ss) == IF ss = <<>> THEN <<>> ELSE Head(ss) \o Concat(Tail(ss))

\* range(a, b)
RangeInclusive(a, b) == [i \in 1..(IF b >= a THEN b - a + 1 ELSE 0) |-> a + i - 1]
Range(a, b) == [i \in 1..(IF b > a THEN b - a ELSE 0) |-> a + i - 1]

SeqMax(s) == CHOOSE m \in {s[i] : i \in 1..Len(s)} :
                 \A i \in 1..Len(s) : s[i] <= m

-----------------------------------------------------------------------------
(* GoogleProjection *)

\* Fixed-point scale of the Mercator table
MercQ == 2^16

\* A longitude is a number of degrees, or Frac(n) for n / MercQ of a turn; a
\* latitude is a number of degrees, or Frac(n) for the latitude h with
\* 0.5 * log((1+sin h)/(1-sin h)) / (2*pi) = n / MercQ. unproject_pixels returns
\* the second forms. Frac(n), |n| <= MercQ, is a number no degree reaches.
FracBase == 2^20
Frac(n) == FracBase + n
IsFrac(v) == v >= FracBase - MercQ
Lon(lon) == IF IsFrac(lon) THEN [n |-> lon - FracBase, d |-> MercQ]
                           ELSE [n |-> lon, d |-> 360]

\* 0.5 * log((1+f)/(1-f)) / (2*pi) with f = minmax(sin(DEG_TO_RAD*lat), -0.9999, 0.9999),
\* in units of 1/MercQ, at the latitudes the model draws
Mercator(lat) ==
    IF IsFrac(lat)
    THEN (IF lat - FracBase > 51648 THEN 51648
          ELSE IF lat - FracBase < -51648 THEN -51648 ELSE lat - FracBase)
    ELSE CASE lat = -90 -> -51648
           [] lat = -88 -> -42223
           [] lat = -60 -> -13736
           [] lat = 1   -> 182
           [] lat = 60  -> 13736
           [] lat = 90  -> 51648

\* project_pixels(ll, zoom): ll = <<lon, lat>>; c = tilesize * 2^zoom, zc = c/2,
\* Bc = c/360, Cc = c/(2*pi)
project_pixels(ll, zoom) ==
    LET c == DEFAULT_TILE_SIZE * 2^zoom
        e == c \div 2
    IN  << Round(e * Lon(ll[1]).d + Lon(ll[1]).n * c, Lon(ll[1]).d),
           Round(e * MercQ - c * Mercator(ll[2]), MercQ) >>

\* unproject_pixels(px, zoom): f = (px[0] - e) / Bc degrees, that is
\* (px[0] - e) / c of a turn, and the latitude h of g = (px[1] - e) / -Cc; the
\* fractions are exact in units of 1/MercQ for the pixels of a tile grid
unproject_pixels_unflipped(px, zoom) ==
    LET c == DEFAULT_TILE_SIZE * 2^zoom
        e == c \div 2
    IN  << Frac(((px[1] - e) * MercQ) \div c),
           Frac(((px[2] - e) * MercQ) \div c) >>
unproject_pixels(px, zoom) ==
    LET c == DEFAULT_TILE_SIZE * 2^zoom
        e == c \div 2
    IN  << Frac(((px[1] - e) * MercQ) \div c),
           Frac(((e - px[2]) * MercQ) \div c) >>

\* tile_at(zoom, position): position = <<lon, lat>>
tile_at(zoom, position) ==
    LET p == project_pixels(position, zoom)
    IN  <<zoom, TruncDiv(p[1], DEFAULT_TILE_SIZE), TruncDiv(p[2], DEFAULT_TILE_SIZE)>>

\* the x and y filters of the loops: "if (x < 0) or (x >= 2**z): continue"
OutOfGridInclusive(v, z) == v < 0 \/ v > 2^z
OutOfGrid(v, z) == v < 0 \/ v >= 2^z

\* the two nested loops of tileslist at one zoom level
TilesAtZoom(xmin, ymin, xmax, ymax, z) ==
    LET px0 == project_pixels(<<xmin, ymax>>, z)    \* left top
        px1 == project_pixels(<<xmax, ymin>>, z)    \* right bottom
        xs == SelectSeq(Range(TruncDiv(px0[1], DEFAULT_TILE_SIZE),
                              TruncDiv(px1[1], DEFAULT_TILE_SIZE) + 1),
                        LAMBDA x : ~OutOfGrid(x, z))
        ys == SelectSeq(Range(TruncDiv(px0[2], DEFAULT_TILE_SIZE),
                              TruncDiv(px1[2], DEFAULT_TILE_SIZE) + 1),
                        LAMBDA y : ~OutOfGrid(y, z))
    IN  Concat([i \in 1..Len(xs) |-> [j \in 1..Len(ys) |-> <<z, xs[i], ys[j]>>]])

\* the validation of the bounding box and of the zoom levels
InvalidCoverageAllowsFlat(bbox, zoomlevels) ==
    \/ Len(bbox) # 4 \/ Len(zoomlevels) = 0
    \/ Abs(bbox[1]) > 180 \/ Abs(bbox[3]) > 180
    \/ Abs(bbox[2]) > 90 \/ Abs(bbox[4]) > 90
    \/ bbox[1] > bbox[3] \/ bbox[2] > bbox[4]
InvalidCoverage(bbox, zoomlevels) ==
    \/ Len(bbox) # 4 \/ Len(zoomlevels) = 0
    \/ Abs(bbox[1]) > 180 \/ Abs(bbox[3]) > 180
    \/ Abs(bbox[2]) > 90 \/ Abs(bbox[4]) > 90
    \/ bbox[1] >= bbox[3] \/ bbox[2] >= bbox[4]

\* TilesManager.tileslist(bbox, zoomlevels): the exception raised, or the list
tileslist(bbox, zoomlevels) ==
    IF InvalidCoverage(bbox, zoomlevels)
    THEN [err |-> "InvalidCoverageError", tiles |-> <<>>]
    ELSE [err |-> "none",
          tiles |-> Concat([k \in 1..Len(zoomlevels) |->
                        TilesAtZoom(bbox[1], bbox[2], bbox[3], bbox[4],
                                    zoomlevels[k])])]

\* "if max(zoomlevels) >= self.proj.maxlevel: self.proj = GoogleProjection(...)",
\* reached only by a valid coverage; GoogleProjection.__init__ sets max(levels) + 1
GrowProjAlways(maxlevel, bbox, zoomlevels) ==
    IF ~InvalidCoverage(bbox, zoomlevels)
    THEN SeqMax(zoomlevels) + 1
    ELSE maxlevel
GrowProj(maxlevel, bbox, zoomlevels) ==
    IF ~InvalidCoverage(bbox, zoomlevels) /\ SeqMax(zoomlevels) >= maxlevel
    THEN SeqMax(zoomlevels) + 1
    ELSE maxlevel

-----------------------------------------------------------------------------
(* Tiles, paths and directories *)

ToSet(s) == {s[i] : i \in 1..Len(s)}

\* the tiles of zoom levels 0 and 1: the builder's coverages lie in them
TileUniverse == UNION {{<<z, x, y>> : x \in 0..(2^z - 1), y \in 0..(2^z - 1)} : z \in 0..1}

\* TilesManager.tile_file: folder z/x and name (2^z - 1 - y).png, as <<z, x, row>>
tile_file(t) == <<t[1], t[2], (2^t[1] - 1) - t[3]>>

Paths == {tile_file(t) : t \in TileUniverse}

\* a directory: whether it exists, and for each tile path "absent", "data"
\* (the bytes the source gave) or "empty" (a file created and never written)
NoFiles == [p \in Paths |-> "absent"]
NoDir == [exists |-> FALSE, files |-> NoFiles]

\* TilesManager.tile_fullpath: the directory the tile is written to and looked up
\* in: tiles_dir when the cache is on, tmp_dir otherwise
FullDir == IF cache /\ ~same_dir THEN "tiles" ELSE "tmp"

\* os.makedirs(tile_abs_dir) followed by a write of content c at path p
WriteFile(f, d, p, c) ==
    [f EXCEPT ![d] = [exists |-> TRUE, files |-> [@.files EXCEPT ![p] = c]]]

\* os.makedirs(tile_abs_dir) alone
MakeDirs(f, d) == [f EXCEPT ![d].exists = TRUE]

\* "if self.cache and self.tmp_dir != self.tiles_dir: ... shutil.copy(tile_abs_uri, tmp_dir)"
CopyToTmp(f, p) ==
    IF cache /\ ~same_dir
    THEN WriteFile(f, "tmp", p, f["tiles"].files[p])
    ELSE f

\* shutil.rmtree(self.tmp_dir), OSError swallowed (TilesManager.clean)
RmTree(f) == [f EXCEPT !["tmp"] = NoDir]

\* the tiles that have a file in directory d
FilesIn(f, d) == {p \in Paths : f[d].files[p] # "absent"}

\* the configurations a manager can be built with
Configs == {c \in [cache : BOOLEAN, same_dir : BOOLEAN,
                   source : {"remote", "mbtiles", "render"}, url_ok : BOOLEAN] :
                (c.source # "remote" => c.url_ok)}

cfg == <<cache, same_dir, source, url_ok>>
tl == <<tl_bbox, tl_zooms, tl_out>>
builder == <<bboxes, nbtiles>>
disk == <<d_kind, d_basefolder, d_basename, d_folder, d_scheme, d_given,
          d_fs, d_saved, d_arg, d_out>>
reader == <<mb_tiles, mb_arg, mb_out>>
pipeline == <<layers, filters, t_out, t_drawn>>
call == <<call_arg, call_out>>

-----------------------------------------------------------------------------
(* cache.py: Cache, Dummy, Disk *)

\* the characters basenames are made of in the model: one lower-case letter, one
\* upper-case letter, one digit, and punctuation
LowerLetters == {"a", "b"}
UpperLetters == {"B"}
Digits == {"0", "1", "2", "3", "4", "5", "6", "7", "8", "9"}
Chars == {"a"} \cup UpperLetters \cup {"7"} \cup {"_", "/", "^", "."}

\* basename.replace("/", "_")
replace_slash(c) == IF c = "/" THEN "_" ELSE c

\* str.lower on one character
lower(c) == IF c = "B" THEN "b" ELSE c

\* the characters that r'[^a-z^A-Z^0-9^_]+' does not match: the class is the
\* complement of a-z, '^', A-Z, '^', 0-9, '^', '_'
Kept(c) == c \in LowerLetters \cup UpperLetters \cup Digits \cup {"^", "_"}

\* re.sub(r'[^a-z^A-Z^0-9^_]+', '', basename.replace("/","_").lower())
Sanitize(name) ==
    SelectSeq([i \in 1..Len(name) |-> lower(replace_slash(name[i]))],
              LAMBDA c : Kept(c))

\* paths are sequences of segments, a segment is a sequence of characters;
\* os.path.join(base, sub): joining '' names the directory base itself
join(base, sub) == IF sub = <<>> THEN base ELSE Append(base, sub)

\* os.path.dirname
dirname(p) == SubSeq(p, 1, Len(p) - 1)

\* Disk.basename setter: the new _basename and folder
basename_setter_nested(base, folder, name) ==
    [basename |-> name, folder |-> join(folder, Sanitize(name))]
basename_setter(base, folder, name) ==
    [basename |-> name, folder |-> join(base, Sanitize(name))]

\* Disk.scheme setter on current scheme cur: the exception raised and the new
\* _scheme
scheme_setter_unchecked(cur, scheme) ==
    [err |-> "none", scheme |-> IF scheme = "wmts" THEN "xyz" ELSE scheme]
scheme_setter(cur, scheme) ==
    IF scheme \notin {"wmts", "xyz", "tms"}
    THEN [err |-> "AssertionError", scheme |-> cur]
    ELSE [err |-> "none", scheme |-> IF scheme = "wmts" THEN "xyz" ELSE scheme]

\* util.flip_y(y, z)
flip_y(y, z) == 2^z - 1 - y

\* Disk.tile_file((z, x, y)): directory z/x and name row.ext, as <<z, x, row>>
Disk_tile_file_flipped_from_top(scheme, t) ==
    <<t[1], t[2], IF scheme # "xyz" THEN 2^t[1] - t[3] ELSE t[3]>>
Disk_tile_file_always_flipped(scheme, t) == <<t[1], t[2], flip_y(t[3], t[1])>>
Disk_tile_file(scheme, t) ==
    <<t[1], t[2], IF scheme # "xyz" THEN flip_y(t[3], t[1]) ELSE t[3]>>

\* "%s" % n
DecimalDigits == <<"0", "1", "2", "3", "4", "5", "6", "7", "8", "9">>
RECURSIVE Num(_)
Num(n) == IF n < 10 THEN <<DecimalDigits[n + 1]>>
          ELSE Append(Num(n \div 10), DecimalDigits[(n % 10) + 1])

\* Disk.tile_fullpath((z, x, y)): folder/z/x/row.png
Disk_tile_fullpath_by_column(folder, scheme, t) ==
    LET f == Disk_tile_file(scheme, t)
    IN  folder \o <<Num(f[1]), Num(f[2]), <<".png">> >>
Disk_tile_fullpath(folder, scheme, t) ==
    LET f == Disk_tile_file(scheme, t)
    IN  folder \o <<Num(f[1]), Num(f[2]), Append(Num(f[3]), ".png")>>

\* p is q or an ancestor of q
Prefix(p, q) == Len(p) <= Len(q) /\ SubSeq(q, 1, Len(p)) = p

\* os.path.exists for a file, os.path.isdir
IsFile(d, p) == \E e \in d.files : e[1] = p
IsDir(d, p) == p \in d.dirs

\* os.rmdir(p) succeeds: p is a directory and holds nothing
CanRmdir(d, p) ==
    /\ IsDir(d, p)
    /\ \A q \in d.dirs : Prefix(p, q) => q = p
    /\ \A e \in d.files : ~Prefix(p, e[1])

\* os.makedirs(p)
makedirs(d, p) == [d EXCEPT !.dirs = @ \cup {SubSeq(p, 1, k) : k \in 1..Len(p)}]

\* open(p, 'wb').write(body)
write(d, p, body) ==
    [d EXCEPT !.files = {e \in @ : e[1] # p} \cup {<<p, body>>}]

\* "while i <= 3"
PruneContinues(i) == i <= 3

\* the loop of Disk.remove: os.rmdir(parent), parent = dirname(parent), i += 1,
\* until OSError
RECURSIVE Prune(_, _, _)
Prune(d, parent, i) ==
    IF PruneContinues(i) /\ CanRmdir(d, parent)
    THEN Prune([d EXCEPT !.dirs = @ \ {parent}], dirname(parent), i + 1)
    ELSE d

\* Disk.remove((z, x, y)): os.remove raises OSError when the file is missing
Disk_remove(d, folder, scheme, t) ==
    LET uri == Disk_tile_fullpath(folder, scheme, t) IN
    IF ~IsFile(d, uri)
    THEN [err |-> "OSError", fs |-> d]
    ELSE [err |-> "none",
          fs |-> Prune([d EXCEPT !.files = {e \in @ : e[1] # uri}],
                       dirname(uri), 0)]

\* Disk.read((z, x, y)): the body, or None
Disk_read(d, folder, scheme, t) ==
    LET uri == Disk_tile_fullpath(folder, scheme, t) IN
    IF IsFile(d, uri)
    THEN (CHOOSE e \in d.files : e[1] = uri)[2]
    ELSE "None"

\* Disk.save(body, (z, x, y))
Disk_save(d, folder, scheme, body, t) ==
    LET uri == Disk_tile_fullpath(folder, scheme, t) IN
    write(IF IsDir(d, dirname(uri)) THEN d ELSE makedirs(d, dirname(uri)),
          uri, body)

\* the directory that holds the cache root, and the cache root (the folder
\* argument of Disk)
Top == << <<"t">> >>
Root == Append(Top, <<"r">>)

\* the coordinates the cache is asked about: they share the zoom directory, two
\* of them the column directory
CacheKeys == {<<1, 0, 0>>, <<1, 0, 1>>, <<1, 1, 0>>}

\* a file system where only Top exists
NoDisk == [dirs |-> {Top}, files |-> {}]

\* no cache object is in use
DiskIdle ==
    /\ d_kind = "disk"
    /\ d_basefolder = Root
    /\ d_basename = <<>>
    /\ d_folder = Root
    /\ d_scheme = "tms"
    /\ d_given = "tms"
    /\ d_fs = NoDisk
    /\ d_saved = [k \in CacheKeys |-> "None"]
    /\ d_arg = <<>>
    /\ d_out = "None"

\* no archive is open
ReaderIdle ==
    /\ mb_tiles = {}
    /\ mb_arg = <<>>
    /\ mb_out = "None"

\* no worker is saving
WorkersIdle == workers = <<>>

\* no function was called
CallIdle == call_arg = <<>> /\ call_out = <<>>

\* no call of find_coverage is in progress
NoScan == [pc |-> "idle", zoom |-> 0, rows |-> <<>>, pos |-> 0, t |-> <<>>,
           previous |-> <<>>, min |-> <<>>, rect |-> <<>>, bbox |-> <<>>]
CoverageIdle == fc = NoScan

\* no tile was asked of a pipeline
NoTileDraw == [base |-> "none", layers |-> <<>>]

\* a manager without layers and filters
PipelineIdle ==
    /\ layers = <<>>
    /\ filters = <<>>
    /\ t_out = <<>>
    /\ t_drawn = NoTileDraw

\* Dummy.read: None; Dummy.save, Dummy.remove, Dummy.clean: pass
Dummy_read(t) == "None"
Dummy_pass(d) == d

\* Disk.clean(): shutil.rmtree(self.folder), OSError swallowed
Disk_clean_keeps(d, folder) == d
Disk_clean(d, folder) ==
    IF IsDir(d, folder)
    THEN [dirs |-> {q \in d.dirs : ~Prefix(folder, q)},
          files |-> {e \in d.files : ~Prefix(folder, e[1])}]
    ELSE d

-----------------------------------------------------------------------------
(* TilesManager.prepare_tile and the three sources *)

\* What the environment gives a source call: for a download, the attempt at which
\* the network first answers (DOWNLOAD_RETRIES + 1: later than the code waits for
\* unless it tries once more); for an extraction or a rendering, 1: the tile is
\* there, anything else: it is not
Draws == 1..(DOWNLOAD_RETRIES + 1)
DrawsOf(src) == IF src = "remote" THEN Draws ELSE {1, DOWNLOAD_RETRIES + 1}

\* "while r > 0"
RetryLoopContinuesOnZero(n) == n >= 0
RetryLoopContinues(n) == n > 0

\* the retry loop of download_tile with n retries left after made attempts:
\* retrieve returns ("return  # Done."), or IOError is caught and r decremented;
\* "raise DownloadError" when the loop ends
RECURSIVE RetryLoop(_, _, _)
RetryLoop(n, made, draw) ==
    IF RetryLoopContinues(n)
    THEN IF made + 1 >= draw
         THEN [err |-> "none", attempts |-> made + 1, file |-> "data"]
         ELSE RetryLoop(n - 1, made + 1, draw)
    ELSE [err |-> "DownloadError", attempts |-> made, file |-> "absent"]

\* download_tile: "except KeyError: raise DownloadError" before any retrieval
download_tile_retrying_bad_url(draw) == RetryLoop(DOWNLOAD_RETRIES, 0, draw)
download_tile(draw) ==
    IF ~url_ok
    THEN [err |-> "DownloadError", attempts |-> 0, file |-> "absent"]
    ELSE RetryLoop(DOWNLOAD_RETRIES, 0, draw)

\* extract_tile: open(output, 'wb') creates the file, then reader.tile returns
\* the data or raises ExtractionError
extract_tile(draw) ==
    IF draw = 1
    THEN [err |-> "none", attempts |-> 0, file |-> "data"]
    ELSE [err |-> "ExtractionError", attempts |-> 0, file |-> "empty"]

\* render_tile: mapnik renders and saves the image, or raises
render_tile(draw) ==
    IF draw = 1
    THEN [err |-> "none", attempts |-> 0, file |-> "data"]
    ELSE [err |-> "RuntimeError", attempts |-> 0, file |-> "absent"]

\* "if self.cache and os.path.exists(tile_abs_uri)"
CacheHitNever(f, t) == FALSE
CacheHitWithoutCache(f, t) == f[FullDir].files[tile_file(t)] # "absent"
CacheHit(f, t) == cache /\ f[FullDir].files[tile_file(t)] # "absent"

\* the source is asked once: download, extraction or rendering
AskSource(draw) ==
    CASE source = "remote"  -> download_tile(draw)
      [] source = "mbtiles" -> extract_tile(draw)
      [] source = "render"  -> render_tile(draw)

\* prepare_tile((z, x, y)) on file system f: the file system it leaves, the
\* exception it raises, whether it invoked the source, the network attempts made
\* and what it adds to self.rendered
prepare_tile(f, t, draw) ==
    LET p == tile_file(t) IN
    IF CacheHit(f, t)
    THEN [fs |-> CopyToTmp(f, p), err |-> "none", invoked |-> FALSE,
          attempts |-> 0, rendered |-> 0]
    ELSE LET got == AskSource(draw)
             made == MakeDirs(f, FullDir)
         IN  IF got.err = "none"
             THEN [fs |-> CopyToTmp(WriteFile(made, FullDir, p, got.file), p),
                   err |-> "none", invoked |-> TRUE,
                   attempts |-> got.attempts, rendered |-> 1]
             ELSE [fs |-> IF got.file = "absent" THEN made
                          ELSE WriteFile(made, FullDir, p, got.file),
                   err |-> got.err, invoked |-> TRUE,
                   attempts |-> got.attempts, rendered |-> 0]

\* a tile request on the manager: prepare_tile called from outside run
RequestTiles == {<<1, 0, 0>>, <<1, 1, 1>>}

RequestTile(t) ==
    /\ rendered < MaxRendered
    /\ \E draw \in DrawsOf(source) :
         LET one == prepare_tile(fs, t, draw) IN
         /\ fs' = one.fs
         /\ rendered' = rendered + one.rendered
         /\ result' = IF one.err = "none" THEN "ok" ELSE one.err
         /\ attempts' = one.attempts
         /\ drawn' = IF one.invoked THEN draw ELSE 0
         /\ fetched' = IF one.invoked THEN {t} ELSE {}
         /\ ok_fetched' = IF one.invoked /\ one.err = "none"
                          THEN ok_fetched \cup {t} ELSE ok_fetched
    /\ op' = "tile"
    /\ asked' = t
    /\ packaged' = FALSE
    /\ UNCHANGED <<fc, call, pipeline, workers, reader, disk, cfg, dest, builder, proj_maxlevel, pre, tl>>

\* TilesManager.clean()
ManagerClean ==
    /\ op' = "clean"
    /\ result' = "ok"
    /\ fs' = RmTree(fs)
    /\ ok_fetched' = {}
    /\ fetched' = {}
    /\ packaged' = FALSE
    /\ attempts' = 0
    /\ asked' = <<>>
    /\ drawn' = 0
    /\ UNCHANGED <<fc, call, pipeline, workers, reader, disk, cfg, dest, builder, rendered, proj_maxlevel, pre, tl>>

NoDest == [exists |-> FALSE, tiles |-> {}]
NoPre == [force |-> FALSE, dest_existed |-> FALSE, cached |-> {}]

InitFields ==
    /\ DiskIdle
    /\ PipelineIdle
    /\ CoverageIdle
    /\ CallIdle
    /\ ReaderIdle
    /\ WorkersIdle
    /\ bboxes = <<>>
    /\ nbtiles = 0
    /\ rendered = 0
    /\ proj_maxlevel = 1
    /\ op = "init"
    /\ result = "ok"
    /\ attempts = 0
    /\ asked = <<>>
    /\ drawn = 0
    /\ fetched = {}
    /\ packaged = FALSE
    /\ ok_fetched = {}
    /\ pre = NoPre
    /\ tl_bbox = <<>>
    /\ tl_zooms = <<>>
    /\ tl_out = [err |-> "none", tiles |-> <<>>]

\* neither the temporary directory nor tiles_dir exists yet
InitCommon == InitFields /\ fs = [d \in {"tmp", "tiles"} |-> NoDir]

InitConfig ==
    \E c \in Configs :
        /\ cache = c.cache
        /\ same_dir = c.same_dir
        /\ source = c.source
        /\ url_ok = c.url_ok

InitManager == InitConfig /\ InitCommon /\ dest = NoDest

NextManager ==
    \/ \E t \in RequestTiles : RequestTile(t)
    \/ ManagerClean

SpecManager == InitManager /\ [][NextManager]_vars

-----------------------------------------------------------------------------
(* MBTilesBuilder *)

\* the coverages registered in the model: the world at zooms 0 and 1, its
\* north-west quarter at zoom 1, a polar strip that holds no tile at zoom 0,
\* and a bounding box with xmin >= xmax
World == <<-180, -90, 180, 90>>
Coverages == { <<World, <<0, 1>>>>,
               <<<<-180, 1, -1, 90>>, <<1>>>>,
               <<<<-180, -90, 180, -88>>, <<0>>>>,
               <<<<-1, -90, -180, 90>>, <<0>>>> }

\* what an operation that is no run leaves of the observations of the last one
Forget ==
    /\ fetched' = {}
    /\ packaged' = FALSE
    /\ attempts' = 0
    /\ asked' = <<>>
    /\ drawn' = 0
    /\ pre' = NoPre

\* add_coverage(bbox, zoomlevels)
AddCoverage(c) ==
    /\ Len(bboxes) < MaxCoverages
    /\ bboxes' = Append(bboxes, c)
    /\ op' = "add"
    /\ result' = "ok"
    /\ Forget
    /\ UNCHANGED <<fc, call, pipeline, workers, reader, disk, cfg, fs, dest, nbtiles, rendered, proj_maxlevel, ok_fetched, tl>>

\* MBTilesBuilder.clean(full): TilesManager.clean(), then os.remove(self.filepath)
\* when full
CleanStagingKeeps(f) == f
CleanStaging(f) == RmTree(f)
CleanDestKeeps(d, full) == d
CleanDest(d, full) == IF full THEN NoDest ELSE d

BuilderClean(full) ==
    /\ op' = "clean"
    /\ result' = "ok"
    /\ fs' = CleanStaging(fs)
    /\ dest' = CleanDest(dest, full)
    /\ ok_fetched' = {}
    /\ Forget
    /\ UNCHANGED <<fc, call, pipeline, workers, reader, disk, cfg, builder, rendered, proj_maxlevel, tl>>

\* "if os.path.exists(self.filepath): if force: ... else: return"
SkipsNever(force) == FALSE
Skips(force) == dest.exists /\ ~force

\* run(force=False) on an existing destination: "Nothing to do."
RunSkip ==
    /\ Skips(FALSE)
    /\ op' = "run"
    /\ result' = "skipped"
    /\ Forget
    /\ UNCHANGED <<fc, call, pipeline, workers, reader, disk, cfg, fs, dest, builder, rendered, proj_maxlevel, ok_fetched, tl>>

\* "bboxlist = self.tileslist(bbox, levels)" for each coverage c a builder is given
bboxlist == [c \in Coverages |-> tileslist(c[1], c[2])]

\* the coverages of bb that tileslist rejects
InvalidAt(bb) == {i \in 1..Len(bb) : bboxlist[bb[i]].err # "none"}

\* "tileslist = tileslist.union(bboxlist)" over the coverages of bb
TilesUnion(bb) == UNION {ToSet(bboxlist[bb[i]].tiles) : i \in 1..Len(bb)}

\* "self.nbtiles = len(tileslist)"
CountSum(bb) == Len(Concat([i \in 1..Len(bb) |-> bboxlist[bb[i]].tiles]))
CountTiles(bb) == Cardinality(TilesUnion(bb))

\* self.proj after the tileslist calls on the coverages 1..n of bb
RECURSIVE ProjAfter(_, _, _)
ProjAfter(maxlevel, bb, n) ==
    IF n = 0 THEN maxlevel
    ELSE GrowProj(ProjAfter(maxlevel, bb, n - 1), bb[n][1], bb[n][2])

\* "if not self.nbtiles: raise EmptyCoverageError"
EmptyCoverageNever(n) == FALSE
EmptyCoverage(n) == n = 0

\* t comes before u in the order the loop of run goes through the set of tiles:
\* the model takes the ascending order of (z, x, y)
Before(t, u) ==
    \/ t[1] < u[1]
    \/ t[1] = u[1] /\ t[2] < u[2]
    \/ t[1] = u[1] /\ t[2] = u[2] /\ t[3] < u[3]

\* the tiles of S in that order
RECURSIVE InOrder(_)
InOrder(S) ==
    IF S = {} THEN <<>>
    ELSE LET t == CHOOSE x \in S : \A y \in S \ {x} : Before(x, y)
         IN  <<t>> \o InOrder(S \ {t})

\* one pass of "for (z, x, y) in tileslist: self.prepare_tile((z, x, y))": acc is
\* what the passes before left, one what prepare_tile did on tile t
GatherStepCountingAll(acc, one, t) ==
    [fs |-> one.fs, err |-> one.err,
     attempts |-> acc.attempts + one.attempts,
     fetched |-> acc.fetched \cup (IF one.invoked THEN {t} ELSE {}),
     rendered |-> acc.rendered + 1]
GatherStep(acc, one, t) ==
    [fs |-> one.fs, err |-> one.err,
     attempts |-> acc.attempts + one.attempts,
     fetched |-> acc.fetched \cup (IF one.invoked THEN {t} ELSE {}),
     rendered |-> acc.rendered + one.rendered]

\* the loop over the tiles ts[k], ..., ts[n], each obtained under draw, up to the
\* first exception
RECURSIVE GatherAll(_, _, _, _, _)
GatherAll(acc, ts, k, n, draw) ==
    IF k > n \/ acc.err # "none" THEN acc
    ELSE GatherAll(GatherStep(acc, prepare_tile(acc.fs, ts[k], draw), ts[k]),
                   ts, k + 1, n, draw)

\* the loop has not begun on file system f
GatherNone(f) ==
    [fs |-> f, err |-> "none", attempts |-> 0, fetched |-> {}, rendered |-> 0]

\* disk_to_mbtiles(self.tmp_dir, self.filepath): the archive holds the files of
\* the staging directory
disk_to_mbtiles(f) == [exists |-> TRUE,
                       tiles |-> {<<p, f["tmp"].files[p]>> : p \in FilesIn(f, "tmp")}]

\* the clean-up that ends run: "self.clean()" after disk_to_mbtiles
FinalClean(f) == CleanStaging(f)

\* run(force) past the skip check: clean(full=force), the tile list of every
\* coverage, nbtiles, EmptyCoverageError, rendered = 0, the loop over the tiles
\* (n of them are obtained, then either the loop is over or the next one raises),
\* disk_to_mbtiles, clean()
RunBuild(force) ==
    /\ ~Skips(force)
    /\ op' = "run"
    /\ pre' = [force |-> force, dest_existed |-> dest.exists,
               cached |-> IF cache THEN FilesIn(CleanStaging(fs), FullDir) ELSE {}]
    /\ ok_fetched' = {}
    /\ IF InvalidAt(bboxes) # {}
       THEN LET first == CHOOSE i \in InvalidAt(bboxes) :
                             \A j \in InvalidAt(bboxes) : i <= j
            IN  /\ proj_maxlevel' = ProjAfter(proj_maxlevel, bboxes, first - 1)
                /\ result' = "InvalidCoverageError"
                /\ fs' = CleanStaging(fs)
                /\ dest' = CleanDest(dest, force)
                /\ fetched' = {}
                /\ attempts' = 0
                /\ packaged' = FALSE
                /\ UNCHANGED <<nbtiles, rendered>>
       ELSE /\ proj_maxlevel' = ProjAfter(proj_maxlevel, bboxes, Len(bboxes))
            /\ nbtiles' = CountTiles(bboxes)
            /\ IF EmptyCoverage(CountTiles(bboxes))
               THEN /\ result' = "EmptyCoverageError"
                    /\ fs' = CleanStaging(fs)
                    /\ dest' = CleanDest(dest, force)
                    /\ fetched' = {}
                    /\ attempts' = 0
                    /\ packaged' = FALSE
                    /\ UNCHANGED rendered
               ELSE \E ts \in {InOrder(TilesUnion(bboxes))} :
                    \E n \in 0..Len(ts), draw \in DrawsOf(source) :
                    \E g \in {GatherAll(GatherNone(CleanStaging(fs)), ts, 1, n, draw)} :
                      /\ g.err = "none"
                      /\ \/ /\ n = Len(ts)
                            /\ dest' = disk_to_mbtiles(g.fs)
                            /\ packaged' = TRUE
                            /\ fs' = FinalClean(g.fs)
                            /\ result' = "ok"
                            /\ rendered' = g.rendered
                            /\ fetched' = g.fetched
                            /\ attempts' = g.attempts
                         \/ /\ n < Len(ts)
                            /\ \E bad \in DrawsOf(source) :
                               \E one \in {prepare_tile(g.fs, ts[n + 1], bad)} :
                                 /\ one.err # "none"
                                 /\ dest' = CleanDest(dest, force)
                                 /\ packaged' = FALSE
                                 /\ fs' = one.fs
                                 /\ result' = one.err
                                 /\ rendered' = g.rendered
                                 /\ fetched' = g.fetched \cup {ts[n + 1]}
                                 /\ attempts' = g.attempts + one.attempts
    /\ UNCHANGED <<fc, call, pipeline, workers, reader, disk, cfg, bboxes, tl, asked, drawn>>

\* a file an earlier process left at self.filepath
OldDest == [exists |-> TRUE, tiles |-> {<<tile_file(<<0, 0, 0>>), "data">>}]

\* the temporary directory of the builder as a run that raised left it, with
\* the file of a tile
StaleStaging ==
    WriteFile([d \in {"tmp", "tiles"} |-> NoDir], "tmp", tile_file(<<1, 1, 1>>), "data")

\* a builder just constructed: the destination may exist already, and so may
\* its temporary directory
Init ==
    /\ InitConfig
    /\ InitFields
    /\ fs \in {[d \in {"tmp", "tiles"} |-> NoDir], StaleStaging}
    /\ dest \in {NoDest, OldDest}

Next ==
    \/ \E c \in Coverages : AddCoverage(c)
    \/ RunSkip
    \/ \E force \in BOOLEAN : RunBuild(force)
    \/ \E full \in BOOLEAN : BuilderClean(full)

Spec == Init /\ [][Next]_vars

-----------------------------------------------------------------------------
(* Calls of TilesManager.tileslist *)

\* the longitudes and latitudes bounding boxes are drawn from
Lons == {-181, -180, -1, 180}
Lats == {-90, -88, 1, 90, 91}

\* the bounding boxes drawn: every 4-tuple of them, and two of another length
BBoxes == {<<a, b, c, d>> : a \in Lons, b \in Lats, c \in Lons, d \in Lats}
              \cup {<<-180, -90>>, <<-180, -90, 180, 90, 0>>}

\* the zoom lists drawn: the empty one included, levels may repeat
ZoomLists == UNION {[1..n -> 0..MaxZoom] : n \in 0..MaxLevels}

\* a manager about to be asked tileslist(tl_bbox, tl_zooms)
InitTiles ==
    /\ DiskIdle
    /\ PipelineIdle
    /\ CoverageIdle
    /\ CallIdle
    /\ ReaderIdle
    /\ WorkersIdle
    /\ cache = TRUE /\ same_dir = TRUE /\ source = "remote" /\ url_ok = TRUE
    /\ fs = [d \in {"tmp", "tiles"} |-> NoDir]
    /\ dest = NoDest
    /\ bboxes = <<>>
    /\ nbtiles = 0
    /\ rendered = 0
    /\ proj_maxlevel = 1
    /\ op = "init"
    /\ result = "ok"
    /\ attempts = 0
    /\ asked = <<>>
    /\ drawn = 0
    /\ fetched = {}
    /\ packaged = FALSE
    /\ ok_fetched = {}
    /\ pre = NoPre
    /\ tl_bbox \in BBoxes
    /\ tl_zooms \in ZoomLists
    /\ tl_out = [err |-> "none", tiles |-> <<>>]

\* tileslist(tl_bbox, tl_zooms) is called
CallTileslist ==
    /\ op = "init"
    /\ op' = "tileslist"
    /\ tl_out' = tileslist(tl_bbox, tl_zooms)
    /\ result' = IF InvalidCoverage(tl_bbox, tl_zooms)
                 THEN "InvalidCoverageError" ELSE "ok"
    /\ proj_maxlevel' = GrowProj(proj_maxlevel, tl_bbox, tl_zooms)
    /\ UNCHANGED <<fc, call, pipeline, workers, reader, disk, cfg, fs, dest, builder, rendered, attempts, asked, drawn,
                   fetched, packaged, ok_fetched, pre, tl_bbox, tl_zooms>>

NextTiles == CallTileslist

SpecTiles == InitTiles /\ [][NextTiles]_vars

-----------------------------------------------------------------------------
(* A Disk cache object: its setters and tile_file *)

MaxName == 2    \* longest basename assigned

\* the basenames assigned
Names == UNION {[1..n -> Chars] : n \in 0..MaxName}

\* the scheme values assigned
Schemes == {"wmts", "xyz", "tms", "bad"}

\* the coordinates tile_file is asked
FileTiles == {<<12, 2064, 1495>>, <<0, 0, 0>>, <<1, 0, 0>>, <<1, 0, 1>>,
              <<1, 1, 0>>, <<1, 1, 1>>}

\* the variables of the manager and of the builder
manager == <<cfg, fs, dest, builder, rendered, proj_maxlevel, attempts, asked,
             drawn, fetched, packaged, ok_fetched, pre, tl>>

\* no manager is in use
ManagerIdle ==
    /\ cache = TRUE /\ same_dir = TRUE /\ source = "remote" /\ url_ok = TRUE
    /\ fs = [d \in {"tmp", "tiles"} |-> NoDir]
    /\ dest = NoDest
    /\ bboxes = <<>>
    /\ nbtiles = 0
    /\ rendered = 0
    /\ proj_maxlevel = 1
    /\ attempts = 0
    /\ asked = <<>>
    /\ drawn = 0
    /\ fetched = {}
    /\ packaged = FALSE
    /\ ok_fetched = {}
    /\ pre = NoPre
    /\ tl_bbox = <<>>
    /\ tl_zooms = <<>>
    /\ tl_out = [err |-> "none", tiles |-> <<>>]

\* Disk(basename, folder): Cache.__init__ sets the scheme, Disk.__init__ the
\* root and, through the setter, the basename and the folder
InitDisk ==
    /\ ManagerIdle
    /\ PipelineIdle
    /\ CoverageIdle
    /\ CallIdle
    /\ ReaderIdle
    /\ WorkersIdle
    /\ op = "init"
    /\ result = "ok"
    /\ d_kind = "disk"
    /\ d_basefolder = Root
    /\ d_basename \in Names
    /\ d_folder = basename_setter(Root, Root, d_basename).folder
    /\ d_scheme = "tms"
    /\ d_given = "tms"
    /\ d_fs = NoDisk
    /\ d_saved = [k \in CacheKeys |-> "None"]
    /\ d_arg = <<>>
    /\ d_out = "None"

\* cache.basename = name
SetBasename(name) ==
    /\ op' = "basename"
    /\ result' = "ok"
    /\ d_arg' = name
    /\ d_out' = "None"
    /\ d_basename' = basename_setter(d_basefolder, d_folder, name).basename
    /\ d_folder' = basename_setter(d_basefolder, d_folder, name).folder
    /\ UNCHANGED <<fc, call, pipeline, workers, reader, manager, d_kind, d_basefolder, d_scheme, d_given, d_fs, d_saved>>

\* cache.scheme = scheme
SetScheme(scheme) ==
    /\ op' = "scheme"
    /\ d_arg' = scheme
    /\ d_out' = "None"
    /\ \E r \in {scheme_setter(d_scheme, scheme)} :
         /\ result' = IF r.err = "none" THEN "ok" ELSE r.err
         /\ d_scheme' = r.scheme
         /\ d_given' = IF r.err = "none" THEN scheme ELSE d_given
    /\ UNCHANGED <<fc, call, pipeline, workers, reader, manager, d_kind, d_basefolder, d_basename, d_folder, d_fs, d_saved>>

\* cache.tile_file((z, x, y))
TileFile(t) ==
    /\ op' = "tile_file"
    /\ result' = "ok"
    /\ d_arg' = t
    /\ d_out' = Disk_tile_file(d_scheme, t)
    /\ UNCHANGED <<fc, call, pipeline, workers, reader, manager, d_kind, d_basefolder, d_basename, d_folder, d_scheme,
                   d_given, d_fs, d_saved>>

NextDisk ==
    \/ \E name \in Names : SetBasename(name)
    \/ \E scheme \in Schemes : SetScheme(scheme)
    \/ \E t \in FileTiles : TileFile(t)

SpecDisk == InitDisk /\ [][NextDisk]_vars

-----------------------------------------------------------------------------
(* A sequence of calls of TilesManager.tileslist on one manager *)

\* GoogleProjection.__init__: "for d in range(self.maxlevel): ...
\* self.Ac.append(c); c *= 2", d levels to go, from extent c
RECURSIVE ProjLoop(_, _, _)
ProjLoop(d, c, Ac) ==
    IF d = 0 THEN Ac ELSE ProjLoop(d - 1, c * 2, Append(Ac, c))

\* self.proj.Ac of the projection whose maxlevel is maxlevel
GoogleProjection_Ac(tilesize, maxlevel) == ProjLoop(maxlevel, tilesize, <<>>)

\* the bounding boxes the manager is asked
ProjBBoxes == {c[1] : c \in Coverages}

\* a manager just constructed: self.proj = GoogleProjection(self.tile_size)
InitProj ==
    /\ ManagerIdle
    /\ DiskIdle
    /\ PipelineIdle
    /\ CoverageIdle
    /\ CallIdle
    /\ ReaderIdle
    /\ WorkersIdle
    /\ op = "init"
    /\ result = "ok"

\* tileslist(bbox, zoomlevels), after whatever calls came before
CallTileslistAgain(bbox, zoomlevels) ==
    /\ op' = "tileslist"
    /\ tl_bbox' = bbox
    /\ tl_zooms' = zoomlevels
    /\ tl_out' = tileslist(bbox, zoomlevels)
    /\ result' = IF InvalidCoverage(bbox, zoomlevels)
                 THEN "InvalidCoverageError" ELSE "ok"
    /\ proj_maxlevel' = GrowProj(proj_maxlevel, bbox, zoomlevels)
    /\ UNCHANGED <<fc, call, pipeline, workers, reader, disk, cfg, fs, dest, builder, rendered, attempts, asked, drawn,
                   fetched, packaged, ok_fetched, pre>>

NextProj == \E bbox \in ProjBBoxes, zoomlevels \in ZoomLists : CallTileslistAgain(bbox, zoomlevels)

SpecProj == InitProj /\ [][NextProj]_vars

-----------------------------------------------------------------------------
(* A cache object in use: save, read, remove, clean *)

\* the basenames of the caches in use: a plain one, and one that sanitizes to ''
CacheNames == {<<"a">>, <<".">>}

\* the bodies saved
Bodies == {"", "a"}

\* what the file system holds when the cache object is built: Top alone, or with
\* a file of someone else in Top (top_other), or with the folder of another
\* source holding a tile under Root (root_other)
OtherFolder == Append(Root, <<"b">>)
EnvDisk(top_other, root_other) ==
    [dirs |-> {Top} \cup (IF root_other
                          THEN {Root, OtherFolder, Append(OtherFolder, <<"1">>),
                                OtherFolder \o << <<"1">>, <<"0">> >>}
                          ELSE {}),
     files |-> (IF top_other THEN {<<Append(Top, <<"f">>), "x">>} ELSE {})
               \cup (IF root_other
                     THEN {<<OtherFolder \o << <<"1">>, <<"0">>, <<"0", ".png">> >>, "x">>}
                     ELSE {})]

\* Disk(basename, Root) with a scheme, or Dummy()
InitCache ==
    /\ ManagerIdle
    /\ PipelineIdle
    /\ CoverageIdle
    /\ CallIdle
    /\ ReaderIdle
    /\ WorkersIdle
    /\ op = "init"
    /\ result = "ok"
    /\ d_kind \in {"disk", "dummy"}
    /\ d_basefolder = Root
    /\ d_basename \in (IF d_kind = "disk" THEN CacheNames ELSE {<<>>})
    /\ d_folder = basename_setter(Root, Root, d_basename).folder
    /\ d_scheme \in (IF d_kind = "disk" THEN {"tms", "xyz"} ELSE {"tms"})
    /\ d_given = d_scheme
    /\ d_fs \in {EnvDisk(a, b) : a, b \in BOOLEAN}
    /\ d_saved = [k \in CacheKeys |-> "None"]
    /\ d_arg = <<>>
    /\ d_out = "None"

\* cache.save(body, k)
CacheSave(body, k) ==
    /\ op' = "save"
    /\ result' = "ok"
    /\ d_arg' = k
    /\ d_out' = "None"
    /\ d_fs' = IF d_kind = "disk"
               THEN Disk_save(d_fs, d_folder, d_scheme, body, k)
               ELSE Dummy_pass(d_fs)
    /\ d_saved' = [d_saved EXCEPT ![k] = body]
    /\ UNCHANGED <<fc, call, pipeline, workers, reader, manager, d_kind, d_basefolder, d_basename, d_folder, d_scheme,
                   d_given>>

\* cache.read(k)
CacheRead(k) ==
    /\ op' = "read"
    /\ result' = "ok"
    /\ d_arg' = k
    /\ d_out' = IF d_kind = "disk"
                THEN Disk_read(d_fs, d_folder, d_scheme, k)
                ELSE Dummy_read(k)
    /\ UNCHANGED <<fc, call, pipeline, workers, reader, manager, d_kind, d_basefolder, d_basename, d_folder, d_scheme,
                   d_given, d_fs, d_saved>>

\* cache.remove(k)
CacheRemove(k) ==
    /\ op' = "remove"
    /\ d_arg' = k
    /\ d_out' = "None"
    /\ IF d_kind = "disk"
       THEN \E r \in {Disk_remove(d_fs, d_folder, d_scheme, k)} :
                /\ d_fs' = r.fs
                /\ result' = IF r.err = "none" THEN "ok" ELSE r.err
       ELSE /\ d_fs' = Dummy_pass(d_fs)
            /\ result' = "ok"
    /\ d_saved' = [d_saved EXCEPT ![k] = "None"]
    /\ UNCHANGED <<fc, call, pipeline, workers, reader, manager, d_kind, d_basefolder, d_basename, d_folder, d_scheme,
                   d_given>>

\* cache.clean()
CacheClean ==
    /\ op' = "clean"
    /\ result' = "ok"
    /\ d_arg' = <<>>
    /\ d_out' = "None"
    /\ d_fs' = IF d_kind = "disk" THEN Disk_clean(d_fs, d_folder)
               ELSE Dummy_pass(d_fs)
    /\ d_saved' = [k \in CacheKeys |-> "None"]
    /\ UNCHANGED <<fc, call, pipeline, workers, reader, manager, d_kind, d_basefolder, d_basename, d_folder, d_scheme,
                   d_given>>

NextCache ==
    \/ \E body \in Bodies, k \in CacheKeys : CacheSave(body, k)
    \/ \E k \in CacheKeys : CacheRead(k)
    \/ \E k \in CacheKeys : CacheRemove(k)
    \/ CacheClean

SpecCache == InitCache /\ [][NextCache]_vars

\* without a cache: a Dummy cache object in use, or a manager built with
\* cache=False that is asked tiles
InitNoCache ==
    \/ InitCache /\ d_kind = "dummy"
    \/ InitManager /\ ~cache

NextNoCache ==
    \/ d_kind = "dummy" /\ NextCache
    \/ ~cache /\ NextManager

SpecNoCache == InitNoCache /\ [][NextNoCache]_vars

-----------------------------------------------------------------------------
(* MBTilesReader: extraction of a tile from an archive (sources.py) *)

MaxRows == 2        \* most rows in the table tiles of an archive

\* the keys <<zoom_level, tile_column, tile_row>> the rows are stored under
RowKeys == TileUniverse

\* the rows an archive may hold; the table need not have a unique index, so two
\* rows may share a key
Rows == {<<k[1], k[2], k[3], b>> : k \in RowKeys, b \in Bodies}
Archives == {a \in SUBSET Rows : Cardinality(a) <= MaxRows}

\* the (z, x, y) tile is called with: the grid of zooms 0 and 1, and rows and
\* columns out of the grid of zoom 0
Requests == {<<z, x, y>> : z \in 0..1, x \in 0..1, y \in 0..1}

\* "SELECT tile_data FROM tiles WHERE zoom_level=? AND tile_column=? AND
\* tile_row=?": the data of the rows selected
Select(rows, z, column, row) ==
    {r[4] : r \in {q \in rows : q[1] = z /\ q[2] = column /\ q[3] = row}}

\* MBTilesReader.tile(z, x, y): the outcomes of the call; fetchone takes the
\* first row selected, in an order the query leaves to the database
MBTilesReader_tile_unflipped(rows, z, x, y) ==
    IF Select(rows, z, x, y) = {}
    THEN {[err |-> "ExtractionError", data |-> "None"]}
    ELSE {[err |-> "none", data |-> d] : d \in Select(rows, z, x, y)}
MBTilesReader_tile(rows, z, x, y) ==
    LET y_mercator == (2^z - 1) - y
        t == Select(rows, z, x, y_mercator)
    IN  IF t = {}
        THEN {[err |-> "ExtractionError", data |-> "None"]}
        ELSE {[err |-> "none", data |-> d] : d \in t}

\* MBTilesReader(filename) on an archive
InitReader ==
    /\ ManagerIdle
    /\ PipelineIdle
    /\ CoverageIdle
    /\ CallIdle
    /\ DiskIdle
    /\ op = "init"
    /\ result = "ok"
    /\ WorkersIdle
    /\ mb_tiles \in Archives
    /\ mb_arg = <<>>
    /\ mb_out = "None"

\* reader.tile(z, x, y)
ReaderTile(z, x, y) ==
    /\ op' = "mbtiles_tile"
    /\ mb_arg' = <<z, x, y>>
    /\ \E r \in MBTilesReader_tile(mb_tiles, z, x, y) :
         /\ result' = IF r.err = "none" THEN "ok" ELSE r.err
         /\ mb_out' = r.data
    /\ UNCHANGED <<fc, call, pipeline, workers, manager, disk, mb_tiles>>

NextReader == \E t \in Requests : ReaderTile(t[1], t[2], t[3])

SpecReader == InitReader /\ [][NextReader]_vars

-----------------------------------------------------------------------------
(* MBTilesReader.find_coverage: the scan of the tiles of a zoom level *)

MaxStored == 3      \* most rows in the table tiles of an archive that is scanned

\* the archives scanned: tiles of zooms 1 and 2 in rows 0 and 1
StoredKeys == {<<z, x, y>> : z \in 1..2, x \in 0..3, y \in 0..1}
StoredRows == {<<k[1], k[2], k[3], "a">> : k \in {q \in StoredKeys : q[2] < 2^q[1]}}
ScannedArchives == {a \in SUBSET StoredRows : Cardinality(a) <= MaxStored}

\* <<column, row>> pairs in the order of "ORDER BY tile_column, tile_row"
PairBefore(p, q) == p[1] < q[1] \/ (p[1] = q[1] /\ p[2] < q[2])
RECURSIVE OrderPairs(_)
OrderPairs(S) ==
    IF S = {} THEN <<>>
    ELSE LET p == CHOOSE a \in S : \A b \in S \ {a} : PairBefore(a, b)
         IN  <<p>> \o OrderPairs(S \ {p})

\* "SELECT tile_column, tile_row FROM tiles WHERE zoom_level=? ORDER BY
\* tile_column, tile_row": the rows the cursor will give
CoverageQuery(rows, zoom) == OrderPairs({<<r[2], r[3]>> : r \in {q \in rows : q[1] = zoom}})

\* rows.fetchone() after pos rows were fetched: the next row, or None (<<>>)
fetchone(rows, pos) == IF pos < Len(rows) THEN rows[pos + 1] ELSE <<>>

\* "while t and t[0] - previous[0] <= 1"
ScanContinuesOverGap(t, previous) == t # <<>>
ScanContinues(t, previous) == t # <<>> /\ t[1] - previous[1] <= 1

\* the end of find_coverage: "xmax, ymax = previous", the two corners in pixels
\* and their positions
CoverageBBox(min, previous, zoom) ==
    LET S == DEFAULT_TILE_SIZE
        bottomleft == <<min[1] * S, (previous[2] + 1) * S>>
        topright == <<(previous[1] + 1) * S, min[2] * S>>
    IN  unproject_pixels(bottomleft, zoom) \o unproject_pixels(topright, zoom)

\* MBTilesReader(filename) on an archive
InitCoverage ==
    /\ ManagerIdle
    /\ PipelineIdle
    /\ CallIdle
    /\ DiskIdle
    /\ WorkersIdle
    /\ op = "init"
    /\ result = "ok"
    /\ mb_tiles \in ScannedArchives
    /\ mb_arg = <<>>
    /\ mb_out = "None"
    /\ fc = NoScan

\* find_coverage(zoom) up to the loop: the query, the first fetchone and
\* "xmin, ymin = t", which raises TypeError when t is None
FindCoverageBegin(zoom) ==
    /\ fc.pc = "idle"
    /\ op' = "find_coverage"
    /\ mb_arg' = <<zoom>>
    /\ \E rows \in {CoverageQuery(mb_tiles, zoom)} :
       \E t \in {fetchone(rows, 0)} :
         IF t = <<>>
         THEN /\ result' = "TypeError"
              /\ fc' = [NoScan EXCEPT !.pc = "done", !.zoom = zoom, !.rows = rows,
                                      !.pos = 1]
         ELSE /\ result' = "running"
              /\ fc' = [NoScan EXCEPT !.pc = "loop", !.zoom = zoom, !.rows = rows,
                                      !.pos = 1, !.t = t, !.previous = t, !.min = t]
    /\ UNCHANGED <<call, pipeline, workers, manager, disk, mb_tiles, mb_out>>

\* one test of the loop condition: the body "previous = t; t = rows.fetchone()",
\* or the exit and the rest of find_coverage
FindCoverageStep ==
    /\ fc.pc = "loop"
    /\ IF ScanContinues(fc.t, fc.previous)
       THEN /\ fc' = [fc EXCEPT !.previous = fc.t,
                                !.t = fetchone(fc.rows, fc.pos),
                                !.pos = fc.pos + 1]
            /\ UNCHANGED result
       ELSE /\ fc' = [fc EXCEPT !.pc = "done",
                                !.rect = fc.min \o fc.previous,
                                !.bbox = CoverageBBox(fc.min, fc.previous, fc.zoom)]
            /\ result' = "ok"
    /\ UNCHANGED <<call, pipeline, workers, manager, disk, reader, op>>

NextCoverage ==
    \/ \E zoom \in 1..2 : FindCoverageBegin(zoom)
    \/ FindCoverageStep

SpecCoverage == InitCoverage /\ [][NextCoverage]_vars

\* the thread that called find_coverage keeps running
SpecCoverageLive == SpecCoverage /\ WF_vars(FindCoverageStep)

-----------------------------------------------------------------------------
(* Disk.save executed by workers in parallel, one coordinate each *)

Workers == {1, 2}

\* the directory and the path worker w saves to
SaveUri(w) == Disk_tile_fullpath(d_folder, d_scheme, workers[w].t)
SaveDir(w) == dirname(SaveUri(w))

\* a Disk cache, and workers about to save bodies under distinct coordinates
InitSave ==
    /\ ManagerIdle
    /\ PipelineIdle
    /\ CoverageIdle
    /\ CallIdle
    /\ ReaderIdle
    /\ op = "init"
    /\ result = "ok"
    /\ d_kind = "disk"
    /\ d_basefolder = Root
    /\ d_basename \in CacheNames
    /\ d_folder = basename_setter(Root, Root, d_basename).folder
    /\ d_scheme \in {"tms", "xyz"}
    /\ d_given = d_scheme
    /\ d_fs \in {EnvDisk(a, b) : a, b \in BOOLEAN}
    /\ d_saved = [k \in CacheKeys |-> "None"]
    /\ d_arg = <<>>
    /\ d_out = "None"
    /\ workers \in {f \in [Workers -> [pc : {"isdir"}, t : CacheKeys, body : Bodies]] :
                      \A v, w \in Workers : f[v].t = f[w].t => v = w}

\* "if not os.path.isdir(tile_abs_dir):"
SaveIsdir(w) ==
    /\ workers[w].pc = "isdir"
    /\ workers' = [workers EXCEPT ![w].pc =
                      IF IsDir(d_fs, SaveDir(w)) THEN "write" ELSE "makedirs"]
    /\ op' = "save"
    /\ result' = "ok"
    /\ d_arg' = workers[w].t
    /\ UNCHANGED <<fc, call, pipeline, reader, manager, d_kind, d_basefolder, d_basename, d_folder,
                   d_scheme, d_given, d_fs, d_saved, d_out>>

\* "os.makedirs(tile_abs_dir)": OSError when the directory exists
SaveMakedirs(w) ==
    /\ workers[w].pc = "makedirs"
    /\ op' = "save"
    /\ d_arg' = workers[w].t
    /\ IF IsDir(d_fs, SaveDir(w))
       THEN /\ workers' = [workers EXCEPT ![w].pc = "OSError"]
            /\ result' = "OSError"
            /\ d_fs' = d_fs
       ELSE /\ workers' = [workers EXCEPT ![w].pc = "write"]
            /\ result' = "ok"
            /\ d_fs' = makedirs(d_fs, SaveDir(w))
    /\ UNCHANGED <<fc, call, pipeline, reader, manager, d_kind, d_basefolder, d_basename, d_folder,
                   d_scheme, d_given, d_saved, d_out>>

\* "open(tile_abs_uri, 'wb').write(body)"
SaveWrite(w) ==
    /\ workers[w].pc = "write"
    /\ workers' = [workers EXCEPT ![w].pc = "done"]
    /\ op' = "save"
    /\ result' = "ok"
    /\ d_arg' = workers[w].t
    /\ d_fs' = write(d_fs, SaveUri(w), workers[w].body)
    /\ d_saved' = [d_saved EXCEPT ![workers[w].t] = workers[w].body]
    /\ UNCHANGED <<fc, call, pipeline, reader, manager, d_kind, d_basefolder, d_basename, d_folder,
                   d_scheme, d_given, d_out>>

NextSave ==
    \/ \E w \in Workers : SaveIsdir(w)
    \/ \E w \in Workers : SaveMakedirs(w)
    \/ \E w \in Workers : SaveWrite(w)

SpecSave == InitSave /\ [][NextSave]_vars

-----------------------------------------------------------------------------
(* The pipeline of a TilesManager: add_layer, add_filter and tile with layers *)
(* and filters. An image is the sequence of what made it: the coordinate of  *)
(* the base tile, then a mark per overlay pasted and per filter applied.     *)

MaxChain == 2       \* most layers and filters registered on one manager

\* the opacities layers are added with, in hundredths
Opacities == {50, 54, 100}

\* '%.1f' % opacity
FormatOpacity(o) ==
    LET tenths == (o + 5) \div 10
    IN  <<DecimalDigits[(tenths \div 10) + 1], ".", DecimalDigits[(tenths % 10) + 1]>>

\* the basenames of the managers added as layers
LayerNames == {<<"a">>, <<"b">>}

\* the filters added: a Filter subclass without parameter, and a ColorToAlpha
FilterSet == {[class |-> <<"B">>, color |-> <<>>],
              [class |-> <<"B", "a">>, color |-> <<"7">>]}

\* Filter.basename: the class name; ColorToAlpha.basename: the class name
\* followed by the color
Filter_basename(f) == f.class \o f.color

\* what add_layer and add_filter append to the basename of the cache
LayerFragment(name, opacity) == name \o FormatOpacity(opacity)
FilterFragment(f) == Filter_basename(f)

\* what a source gives when a tile is asked of it
Outcomes == {"ok", "DownloadError", "ExtractionError"}

\* the draws of one call of tile on a manager with n layers
TileDraws(n) == [base : Outcomes, layers : [1..n -> Outcomes]]

\* the blend step: each layer in registration order is asked its tile at the
\* same coordinate and pasted with its opacity; a layer whose source raises
\* DownloadError or ExtractionError is logged and left out
RECURSIVE blend_layers_raising(_, _, _, _)
blend_layers_raising(img, ls, got, i) ==
    IF i > Len(ls) THEN [err |-> "none", image |-> img]
    ELSE IF got[i] # "ok" THEN [err |-> got[i], image |-> <<>>]
    ELSE blend_layers_raising(Append(img, <<"paste", ls[i][1], ls[i][2]>>),
                              ls, got, i + 1)
RECURSIVE blend_layers(_, _, _, _)
blend_layers(img, ls, got, i) ==
    IF i > Len(ls) THEN [err |-> "none", image |-> img]
    ELSE IF got[i] # "ok" THEN blend_layers(img, ls, got, i + 1)
    ELSE blend_layers(Append(img, <<"paste", ls[i][1], ls[i][2]>>),
                      ls, got, i + 1)

\* the filters, applied in registration order
RECURSIVE apply_filters(_, _, _)
apply_filters(img, fs_, i) ==
    IF i > Len(fs_) THEN img
    ELSE apply_filters(Append(img, <<"filter", Filter_basename(fs_[i])>>), fs_, i + 1)

\* the coordinate asked of the pipeline
PipelineTiles == {<<1, 0, 0>>}

\* TilesManager(tiles_url='http://a'): no layer, no filter, a Disk cache named
\* after the source
InitPipeline ==
    /\ ManagerIdle
    /\ CoverageIdle
    /\ ReaderIdle
    /\ WorkersIdle
    /\ CallIdle
    /\ op = "init"
    /\ result = "ok"
    /\ d_kind = "disk"
    /\ d_basefolder = Root
    /\ d_basename = <<"a">>
    /\ d_folder = basename_setter(Root, Root, d_basename).folder
    /\ d_scheme \in {"tms", "xyz"}
    /\ d_given = d_scheme
    /\ d_fs = NoDisk
    /\ d_saved = [k \in CacheKeys |-> "None"]
    /\ d_arg = <<>>
    /\ d_out = "None"
    /\ layers = <<>>
    /\ filters = <<>>
    /\ t_out = <<>>
    /\ t_drawn = NoTileDraw

\* add_layer(tilemanager, opacity)
AddLayer(name, opacity) ==
    /\ Len(layers) + Len(filters) < MaxChain
    /\ op' = "add_layer"
    /\ result' = "ok"
    /\ \E r \in {basename_setter(d_basefolder, d_folder,
                                 d_basename \o LayerFragment(name, opacity))} :
         /\ d_basename' = r.basename
         /\ d_folder' = r.folder
    /\ layers' = Append(layers, <<name, opacity>>)
    /\ t_out' = <<>>
    /\ t_drawn' = NoTileDraw
    /\ UNCHANGED <<fc, call, workers, reader, manager, filters, d_kind, d_basefolder,
                   d_scheme, d_given, d_fs, d_saved, d_arg, d_out>>

\* add_filter(filter)
AddFilter(f) ==
    /\ Len(layers) + Len(filters) < MaxChain
    /\ op' = "add_filter"
    /\ result' = "ok"
    /\ \E r \in {basename_setter(d_basefolder, d_folder,
                                 d_basename \o FilterFragment(f))} :
         /\ d_basename' = r.basename
         /\ d_folder' = r.folder
    /\ filters' = Append(filters, f)
    /\ t_out' = <<>>
    /\ t_drawn' = NoTileDraw
    /\ UNCHANGED <<fc, call, workers, reader, manager, layers, d_kind, d_basefolder,
                   d_scheme, d_given, d_fs, d_saved, d_arg, d_out>>

\* tile((z, x, y)): cache lookup; on a miss the source, the blend step, the
\* filters, the cache write and the counter of rendered tiles
PipelineTile(t) ==
    /\ op' = "pipeline_tile"
    /\ d_arg' = t
    /\ \E uri \in {Disk_tile_fullpath(d_folder, d_scheme, t)} :
       IF IsFile(d_fs, uri)
       THEN /\ t_out' = Disk_read(d_fs, d_folder, d_scheme, t)
            /\ t_drawn' = NoTileDraw
            /\ result' = "ok"
            /\ UNCHANGED <<d_fs, rendered>>
       ELSE \E got \in TileDraws(Len(layers)) :
            /\ t_drawn' = got
            /\ IF got.base # "ok"
               THEN /\ result' = got.base
                    /\ t_out' = <<>>
                    /\ UNCHANGED <<d_fs, rendered>>
               ELSE \E b \in {blend_layers(<<t>>, layers, got.layers, 1)} :
                    IF b.err # "none"
                    THEN /\ result' = b.err
                         /\ t_out' = <<>>
                         /\ UNCHANGED <<d_fs, rendered>>
                    ELSE \E img \in {apply_filters(b.image, filters, 1)} :
                         /\ result' = "ok"
                         /\ t_out' = img
                         /\ d_fs' = Disk_save(d_fs, d_folder, d_scheme, img, t)
                         /\ rendered' = rendered + 1
    /\ UNCHANGED <<fc, call, workers, reader, cfg, fs, dest, builder, proj_maxlevel,
                   attempts, asked, drawn, fetched, packaged, ok_fetched, pre, tl,
                   layers, filters, d_kind, d_basefolder, d_basename, d_folder,
                   d_scheme, d_given, d_saved, d_out>>

NextPipeline ==
    \/ \E name \in LayerNames, opacity \in Opacities : AddLayer(name, opacity)
    \/ \E f \in FilterSet : AddFilter(f)
    \/ \E t \in PipelineTiles : PipelineTile(t)

SpecPipeline == InitPipeline /\ [][NextPipeline]_vars

-----------------------------------------------------------------------------
(* ImageExporter.grid_tiles *)

\* sorted(keys): the elements of a set of integers in ascending order
RECURSIVE Sorted(_)
Sorted(S) ==
    IF S = {} THEN <<>>
    ELSE LET m == CHOOSE a \in S : \A b \in S : a <= b
         IN  <<m>> \o Sorted(S \ {m})

\* "if not grid.get(y): grid[y] = []"
StartsRowAlways(grid, y) == TRUE
StartsRow(grid, y) == y \notin DOMAIN grid \/ grid[y] = <<>>

\* the loop over the tiles: "if not grid.get(y): grid[y] = []" and
\* grid[y].append(x); grid is a function from the rows met so far to the
\* columns met in them, in the order of the list
RECURSIVE FillGrid(_, _, _)
FillGrid(tiles, i, grid) ==
    IF i > Len(tiles) THEN grid
    ELSE LET x == tiles[i][2]
             y == tiles[i][3]
         IN  IF StartsRow(grid, y)
             THEN FillGrid(tiles, i + 1, (y :> <<x>>) @@ grid)
             ELSE FillGrid(tiles, i + 1, (y :> Append(grid[y], x)) @@ grid)

\* grid_tiles(bbox, zoomlevel): the exception of tileslist, or the sorted grid
grid_tiles(bbox, zoomlevel) ==
    LET l == tileslist(bbox, <<zoomlevel>>)
    IN  IF l.err # "none" THEN [err |-> l.err, grid |-> <<>>]
        ELSE LET grid == FillGrid(l.tiles, 1, <<>>)
                 ys == Sorted(DOMAIN grid)
             IN  [err |-> "none",
                  grid |-> [j \in 1..Len(ys) |->
                              LET xs == SortSeq(grid[ys[j]], LAMBDA a, b : a < b)
                              IN  [i \in 1..Len(xs) |-> <<xs[i], ys[j]>>]]]

\* an exporter about to be asked grid_tiles(bbox, zoomlevel)
InitGrid ==
    /\ ManagerIdle
    /\ DiskIdle
    /\ ReaderIdle
    /\ WorkersIdle
    /\ PipelineIdle
    /\ CoverageIdle
    /\ op = "init"
    /\ result = "ok"
    /\ call_arg \in {<<b, z>> : b \in BBoxes, z \in 0..MaxZoom}
    /\ call_out = <<>>

\* grid_tiles(bbox, zoomlevel) is called
CallGridTiles ==
    /\ op = "init"
    /\ op' = "grid_tiles"
    /\ \E g \in {grid_tiles(call_arg[1], call_arg[2])} :
         /\ call_out' = g.grid
         /\ result' = IF g.err = "none" THEN "ok" ELSE g.err
    /\ proj_maxlevel' = GrowProj(proj_maxlevel, call_arg[1], <<call_arg[2]>>)
    /\ UNCHANGED <<fc, call_arg, pipeline, workers, reader, disk, cfg, fs, dest,
                   builder, rendered, attempts, asked, drawn, fetched, packaged,
                   ok_fetched, pre, tl>>

NextGrid == CallGridTiles

SpecGrid == InitGrid /\ [][NextGrid]_vars

-----------------------------------------------------------------------------
(* The URL a tile is downloaded from (TileDownloader.tile, download_tile) *)

MaxSubdomains == 3  \* longest list of subdomains drawn

\* the lists of subdomains drawn, the empty one included
SubdomainLists == UNION {[1..n -> {"a", "b", "c"}] : n \in 0..MaxSubdomains}

\* the tiles a download is asked for
DownloadTiles ==
    UNION {{<<z, x, y>> : x \in 0..(2^z - 1), y \in 0..(2^z - 1)} : z \in 0..MaxZoom}

\* "s = self.tiles_subdomains[(x + y) % len(self.tiles_subdomains)]" and
\* "url = self.tiles_url.format(**locals())" for the URL {s}/{z}/{x}/{y}: the
\* exception raised, or the URL as <<s, z, x, y>>; list indexes start at 0
download_url_by_column(subdomains, z, x, y) ==
    IF Len(subdomains) = 0
    THEN [err |-> "ZeroDivisionError", url |-> <<>>]
    ELSE [err |-> "none", url |-> <<subdomains[(x % Len(subdomains)) + 1], z, x, y>>]
download_url(subdomains, z, x, y) ==
    IF Len(subdomains) = 0
    THEN [err |-> "ZeroDivisionError", url |-> <<>>]
    ELSE [err |-> "none",
          url |-> <<subdomains[((x + y) % Len(subdomains)) + 1], z, x, y>>]

\* a downloader with its subdomains, about to be asked a tile
InitDownload ==
    /\ ManagerIdle
    /\ DiskIdle
    /\ ReaderIdle
    /\ WorkersIdle
    /\ PipelineIdle
    /\ CoverageIdle
    /\ op = "init"
    /\ result = "ok"
    /\ call_arg \in {<<l, <<>> >> : l \in SubdomainLists}
    /\ call_out = <<>>

\* the downloader is asked tile t: the URL is made
CallDownloadUrl(t) ==
    /\ op' = "download_url"
    /\ call_arg' = <<call_arg[1], t>>
    /\ \E u \in {download_url(call_arg[1], t[1], t[2], t[3])} :
         /\ call_out' = u.url
         /\ result' = IF u.err = "none" THEN "ok" ELSE u.err
    /\ UNCHANGED <<fc, pipeline, workers, reader, disk, manager>>

NextDownload == \E t \in DownloadTiles : CallDownloadUrl(t)

SpecDownload == InitDownload /\ [][NextDownload]_vars

-----------------------------------------------------------------------------
(* CustomTileSet(proj='EPSG:3857', tilesize=256, extent=the world)           *)
(* The transformer gives x = R * lon * pi / 180 and y = R * ln(tan(pi/4 +    *)
(* lat/2)); the extent is the square [-pi * R, pi * R]^2, and resolutions[z] *)
(* = 2 * pi * R / (tilesize * 2^z), so that (coords - extent) / res is       *)
(* c / 2 + c * lon / 360 and c / 2 + c * Mercator(lat) with c = tilesize *   *)
(* 2^z. The positions drawn are off the poles, where the transformer has no  *)
(* finite value, and off the antimeridian at 180, where the pixel falls on   *)
(* either side of a tile boundary with the rounding of the floats.           *)

\* len(self.resolutions): level_number, 21 by default
LevelNumber == 21

\* the positions and bounding boxes drawn
CustomLons == {-181, -180, -1, 100}
CustomLats == {-88, -60, 1, 60}
CustomBBoxes == {<<a, b, c, d>> : a \in CustomLons, b \in CustomLats,
                                  c \in CustomLons, d \in CustomLats}

\* the level lists drawn: none is empty
CustomLevels == UNION {[1..n -> 0..MaxZoom] : n \in 1..MaxLevels}

\* CustomTileSet.project_pixels(ll, zoom): int() truncates toward zero
Custom_project_pixels(ll, zoom) ==
    LET c == DEFAULT_TILE_SIZE * 2^zoom
        e == c \div 2
    IN  << TruncDiv(e * 360 + ll[1] * c, 360),
           TruncDiv(e * MercQ + c * Mercator(ll[2]), MercQ) >>

\* CustomTileSet.tile_at(zoom, position): x and y are ints, x / tilesize is the
\* floor division of Python 2
Custom_tile_at(zoom, position) ==
    LET p == Custom_project_pixels(position, zoom)
    IN  <<zoom, p[1] \div DEFAULT_TILE_SIZE, p[2] \div DEFAULT_TILE_SIZE>>

\* the loops of CustomTileSet.tileslist at one level
Custom_TilesAtZoom(xmin, ymin, xmax, ymax, z) ==
    IF z < 0 \/ z >= LevelNumber THEN <<>>
    ELSE LET ll_tile == Custom_tile_at(z, <<xmin, ymin>>)    \* lower left tile
             ur_tile == Custom_tile_at(z, <<xmax, ymax>>)    \* upper right tile
             xs == Range(ll_tile[2], ur_tile[2] + 1)
             ys == Range(ll_tile[3], ur_tile[3] + 1)
         IN  Concat([i \in 1..Len(xs) |-> [j \in 1..Len(ys) |-> <<z, xs[i], ys[j]>>]])

\* CustomTileSet.tileslist(bbox, levels)
Custom_tileslist(bbox, levels) ==
    IF \/ Len(bbox) # 4
       \/ Abs(bbox[1]) > 180 \/ Abs(bbox[3]) > 180
       \/ Abs(bbox[2]) > 90 \/ Abs(bbox[4]) > 90
       \/ bbox[1] >= bbox[3] \/ bbox[2] >= bbox[4]
    THEN [err |-> "InvalidCoverageError", tiles |-> <<>>]
    ELSE [err |-> "none",
          tiles |-> Concat([k \in 1..Len(levels) |->
                        Custom_TilesAtZoom(bbox[1], bbox[2], bbox[3], bbox[4],
                                           levels[k])])]

\* a CustomTileSet just built
InitCustom ==
    /\ ManagerIdle
    /\ DiskIdle
    /\ ReaderIdle
    /\ WorkersIdle
    /\ PipelineIdle
    /\ CoverageIdle
    /\ CallIdle
    /\ op = "init"
    /\ result = "ok"

\* tile_at(zoom, position)
CustomTileAt(zoom, position) ==
    /\ op = "init"
    /\ op' = "custom_tile_at"
    /\ result' = "ok"
    /\ call_arg' = <<zoom, position>>
    /\ call_out' = Custom_tile_at(zoom, position)
    /\ UNCHANGED <<fc, pipeline, workers, reader, disk, manager>>

\* tileslist(bbox, levels)
CustomTileslist(bbox, levels) ==
    /\ op = "init"
    /\ op' = "custom_tileslist"
    /\ call_arg' = <<bbox, levels>>
    /\ \E l \in {Custom_tileslist(bbox, levels)} :
         /\ call_out' = l.tiles
         /\ result' = IF l.err = "none" THEN "ok" ELSE l.err
    /\ UNCHANGED <<fc, pipeline, workers, reader, disk, manager>>

NextCustom ==
    \/ \E z \in 0..MaxZoom, lon \in CustomLons \ {-181}, lat \in CustomLats :
          CustomTileAt(z, <<lon, lat>>)
    \/ \E b \in CustomBBoxes, l \in CustomLevels : CustomTileslist(b, l)

SpecCustom == InitCustom /\ [][NextCustom]_vars

-----------------------------------------------------------------------------
(* GoogleProjection: from the origin of a tile to a position and back *)

MaxTripZoom == 3    \* the tiles taken through pixel space are of zooms 0..MaxTripZoom

TripTiles ==
    UNION {{<<z, x, y>> : x \in 0..(2^z - 1), y \in 0..(2^z - 1)} : z \in 0..MaxTripZoom}

\* a projection that covers the zooms 0..MaxTripZoom
InitTrip ==
    /\ ManagerIdle
    /\ DiskIdle
    /\ ReaderIdle
    /\ WorkersIdle
    /\ PipelineIdle
    /\ CoverageIdle
    /\ CallIdle
    /\ op = "init"
    /\ result = "ok"

\* unproject_pixels((x * tilesize, y * tilesize), z)
Unproject(t) ==
    /\ op = "init"
    /\ op' = "unproject_pixels"
    /\ result' = "ok"
    /\ call_arg' = t
    /\ call_out' = unproject_pixels(<<t[2] * DEFAULT_TILE_SIZE,
                                     t[3] * DEFAULT_TILE_SIZE>>, t[1])
    /\ UNCHANGED <<fc, pipeline, workers, reader, disk, manager>>

\* tile_at(z, position) on the position unproject_pixels gave
TileAtPosition ==
    /\ op = "unproject_pixels"
    /\ op' = "tile_at"
    /\ result' = "ok"
    /\ call_out' = tile_at(call_arg[1], call_out)
    /\ UNCHANGED <<fc, call_arg, pipeline, workers, reader, disk, manager>>

NextTrip ==
    \/ \E t \in TripTiles : Unproject(t)
    \/ TileAtPosition

SpecTrip == InitTrip /\ [][NextTrip]_vars

-----------------------------------------------------------------------------
(* Properties *)

\* the distinct tiles of the coverages registered on the builder
DistinctTiles ==
    {t \in TileUniverse :
        \E i \in 1..Len(bboxes) : t \in ToSet(bboxlist[bboxes[i]].tiles)}

\* the paths held by the destination archive
DestPaths == {e[1] : e \in dest.tiles}

\* the full grid of zoom z, columns first, rows within a column
GridAt(z) == [i \in 1..(2^z * 2^z) |-> <<z, (i - 1) \div 2^z, (i - 1) % 2^z>>]

\* C1: with the cache on, in a sequence of tile requests on one manager, a request
\* for a tile that an earlier request fetched successfully is served from the
\* cache: it succeeds, the source is not invoked, no network attempt is made,
\* rendered does not move and the cached data is left as it was
C1_CachedTileNotRefetched ==
    [][(op' = "tile" /\ cache /\ asked' \in ok_fetched)
          => /\ result' = "ok"
             /\ fetched' = {}
             /\ attempts' = 0
             /\ rendered' = rendered
             /\ fs'[FullDir].files[tile_file(asked')] = "data"]_vars

\* a tile fetched by an earlier request has been asked again and was not fetched
C1_Witness ==
    /\ op = "tile" /\ cache /\ result = "ok"
    /\ asked \in ok_fetched /\ fetched = {}

\* C2: run(force=False) on an existing destination skips all work: it returns
\* normally, invokes no source, does not package, and leaves the destination, the
\* staging directory, the cache, nbtiles, rendered, the coverages and the
\* projection as they were, with or without a registered coverage
C2_SkipLeavesAll ==
    [][(op' = "run" /\ dest.exists /\ ~pre'.force)
          => /\ result' = "skipped"
             /\ fetched' = {}
             /\ attempts' = 0
             /\ ~packaged'
             /\ UNCHANGED <<fs, dest, nbtiles, rendered, bboxes, proj_maxlevel>>]_vars

\* a run was skipped on a builder that has no coverage
C2_Witness == op = "run" /\ result = "skipped" /\ dest.exists /\ bboxes = <<>>

\* C3 (as the code has it): run(force=True) on an existing destination deletes it;
\* when the run ends normally the tiles fetched are those of the coverage that the
\* cache did not hold once the staging directory was cleaned (all of them unless
\* the cache is on in a directory of its own) and the destination is rebuilt with
\* the tiles of the coverage; when the run raises the destination is gone
C3_ForcedRunRebuilds ==
    (op = "run" /\ pre.force /\ pre.dest_existed) =>
        /\ result = "ok" =>
              /\ fetched = {t \in DistinctTiles : tile_file(t) \notin pre.cached}
              /\ (~cache \/ same_dir) => fetched = DistinctTiles
              /\ dest.exists
              /\ DestPaths = {tile_file(t) : t \in DistinctTiles}
        /\ result # "ok" => ~dest.exists

\* a forced run over an existing destination took tiles from the cache
C3_Witness ==
    /\ op = "run" /\ pre.force /\ pre.dest_existed /\ result = "ok"
    /\ cache /\ ~same_dir
    /\ \E t \in DistinctTiles : tile_file(t) \in pre.cached /\ t \notin fetched

\* C3 as claimed: a forced run that rebuilds an existing destination fetches every
\* tile of the coverage again, whatever the cache configuration
C3_Original ==
    (op = "run" /\ pre.force /\ pre.dest_existed /\ result = "ok") =>
        /\ fetched = DistinctTiles
        /\ dest.exists

\* C4 (as the code has it): after a run that was not skipped and found every
\* coverage valid, nbtiles is the number of distinct tiles of the registered
\* coverages, never the sum of the list lengths; for the whole world at zooms
\* [0, 1], registered once or more, it is 5
C4_NbTilesIsUnionSize ==
    (op = "run" /\ result \notin {"skipped", "InvalidCoverageError"}) =>
        /\ nbtiles = Cardinality(DistinctTiles)
        /\ (ToSet(bboxes) = {<<World, <<0, 1>>>>}) => nbtiles = 5

\* a run went through the same coverage registered twice
C4_Witness ==
    /\ op = "run" /\ result = "ok"
    /\ bboxes = << <<World, <<0, 1>>>>, <<World, <<0, 1>>>> >>
    /\ nbtiles = 5

\* C4 as claimed: after any run that returns, skipped ones included, nbtiles is
\* the number of distinct tiles of the registered coverages
C4_Original ==
    (op = "run" /\ result \in {"ok", "skipped"}) =>
        nbtiles = Cardinality(DistinctTiles)

\* C5: a run past the skip check whose coverages are all valid and hold no tile
\* (none registered, or registered ones with no tile) raises EmptyCoverageError:
\* no source is invoked, nothing is packaged and no destination file exists
C5_EmptyCoverageFails ==
    (op = "run" /\ result # "skipped" /\ InvalidAt(bboxes) = {}
                /\ DistinctTiles = {}) =>
        /\ result = "EmptyCoverageError"
        /\ fetched = {}
        /\ attempts = 0
        /\ ~packaged
        /\ ~dest.exists

\* a run failed on a registered coverage that holds no tile
C5_Witness ==
    /\ op = "run" /\ result = "EmptyCoverageError"
    /\ bboxes # <<>> /\ DistinctTiles = {}

\* C6: once run is past the skip check, the staging directory is gone when run
\* ends, whether it returns or raises
C6_StagingRemoved ==
    (op = "run" /\ result # "skipped") => ~fs["tmp"].exists

\* C7: a download is bounded by the retry budget: when the network answers at
\* attempt k <= DOWNLOAD_RETRIES the request succeeds after exactly k attempts;
\* when it does not, exactly DOWNLOAD_RETRIES attempts are made and DownloadError
\* is raised; the request as a whole makes no more attempts than that
C7_RetryBudget ==
    (op = "tile" /\ source = "remote" /\ url_ok /\ fetched # {}) =>
        /\ attempts \in 1..DOWNLOAD_RETRIES
        /\ drawn <= DOWNLOAD_RETRIES => (result = "ok" /\ attempts = drawn)
        /\ drawn > DOWNLOAD_RETRIES =>
              (result = "DownloadError" /\ attempts = DOWNLOAD_RETRIES)

\* a download gave up after a network that never answered
C7_Witness ==
    /\ op = "tile" /\ source = "remote" /\ url_ok
    /\ drawn > DOWNLOAD_RETRIES /\ result = "DownloadError"

C9_InvalidCoverageRaises ==
    op = "tileslist" =>
        LET b == tl_bbox
            wrong == \/ Len(b) # 4
                     \/ tl_zooms = <<>>
                     \/ b[1] < -180 \/ b[1] > 180 \/ b[3] < -180 \/ b[3] > 180
                     \/ b[2] < -90 \/ b[2] > 90 \/ b[4] < -90 \/ b[4] > 90
                     \/ b[1] >= b[3]
                     \/ b[2] >= b[4]
        IN  wrong => /\ tl_out.err = "InvalidCoverageError"
                     /\ tl_out.tiles = <<>>
                     /\ result = "InvalidCoverageError"

\* tileslist was given a bounding box with its corners swapped
C9_Witness ==
    /\ op = "tileslist" /\ tl_bbox = <<-1, -90, -180, 90>> /\ tl_zooms = <<0>>
    /\ tl_out.err = "InvalidCoverageError"

\* C10 (as the code has it): tileslist over the whole world with zoom list L
\* returns, for each position of L in turn, the full grid of that zoom ordered by
\* x then y: each tile once per occurrence of its zoom in L; [0] gives
\* [(0,0,0)] and [0,1] gives [(0,0,0),(1,0,0),(1,0,1),(1,1,0),(1,1,1)]
C10_WorldIsFullGrid ==
    (op = "tileslist" /\ tl_bbox = World /\ tl_zooms # <<>>) =>
        /\ tl_out.err = "none"
        /\ tl_out.tiles = Concat([k \in 1..Len(tl_zooms) |-> GridAt(tl_zooms[k])])
        /\ tl_zooms = <<0>> => tl_out.tiles = << <<0, 0, 0>> >>
        /\ tl_zooms = <<0, 1>> =>
              tl_out.tiles = << <<0, 0, 0>>, <<1, 0, 0>>, <<1, 0, 1>>,
                                <<1, 1, 0>>, <<1, 1, 1>> >>

\* the world was listed with a zoom level given twice
C10_Witness ==
    /\ op = "tileslist" /\ tl_bbox = World /\ tl_zooms = <<0, 0>>
    /\ tl_out.tiles = << <<0, 0, 0>>, <<0, 0, 0>> >>

\* C10 as claimed: the list holds the tiles of the full grids of the zooms of L,
\* each tile once
C10_Original ==
    (op = "tileslist" /\ tl_bbox = World /\ tl_zooms # <<>>) =>
        /\ ToSet(tl_out.tiles) = UNION {ToSet(GridAt(z)) : z \in ToSet(tl_zooms)}
        /\ Len(tl_out.tiles) = Cardinality(ToSet(tl_out.tiles))

\* how many times tile t is listed in tiles
Occurrences(tiles, t) == Cardinality({i \in 1..Len(tiles) : tiles[i] = t})

\* the in-grid tiles of zoom z between the tiles of the north-west and of the
\* south-east corner of bounding box b
BetweenCorners(b, z) ==
    LET nw == tile_at(z, <<b[1], b[4]>>)
        se == tile_at(z, <<b[3], b[2]>>)
    IN  {<<z, x, y>> : x \in (nw[2]..se[2]) \cap (0..(2^z - 1)),
                       y \in (nw[3]..se[3]) \cap (0..(2^z - 1))}

\* C11 (as the code has it): for a valid bounding box and zoom list, every tile
\* listed has its zoom in the list and its column and row in [0, 2^z); the tiles
\* of each zoom are exactly the in-grid tiles between the tiles of the north-west
\* and south-east corners; a tile is listed once per occurrence of its zoom in the
\* list, so never twice when no level is repeated; the bounding box
\* (-180, 1, -1, 90) at zoom 1 yields [(1,0,0)]
C11_TilesWithinGrid ==
    (op = "tileslist" /\ tl_out.err = "none") =>
        /\ \A t \in ToSet(tl_out.tiles) :
              /\ t[1] \in ToSet(tl_zooms)
              /\ 0 <= t[2] /\ t[2] < 2^t[1]
              /\ 0 <= t[3] /\ t[3] < 2^t[1]
              /\ Occurrences(tl_out.tiles, t) = Occurrences(tl_zooms, t[1])
        /\ \A z \in ToSet(tl_zooms) :
              {t \in ToSet(tl_out.tiles) : t[1] = z} = BetweenCorners(tl_bbox, z)
        /\ (tl_bbox = <<-180, 1, -1, 90>> /\ tl_zooms = <<1>>) =>
              tl_out.tiles = << <<1, 0, 0>> >>

\* a bounding box inside one tile was listed at a zoom level given twice
C11_Witness ==
    /\ op = "tileslist" /\ tl_bbox = <<-180, 1, -1, 90>> /\ tl_zooms = <<1, 1>>
    /\ tl_out.tiles = << <<1, 0, 0>>, <<1, 0, 0>> >>

\* C11 as claimed: the tiles listed are in the grid and none is listed twice in
\* one call
C11_Original ==
    (op = "tileslist" /\ tl_out.err = "none") =>
        /\ \A t \in ToSet(tl_out.tiles) :
              /\ t[1] \in ToSet(tl_zooms)
              /\ 0 <= t[2] /\ t[2] < 2^t[1]
              /\ 0 <= t[3] /\ t[3] < 2^t[1]
        /\ \A t \in ToSet(tl_out.tiles) : Occurrences(tl_out.tiles, t) = 1

\* C12: Disk.tile_file((z, x, y)) gives directory z/x and row y when the scheme
\* was configured as xyz or wmts, row 2^z - 1 - y when it is tms; (12,2064,1495)
\* has row 1495 under wmts and 2600 under tms; under one scheme distinct
\* coordinates have distinct paths
C12_TileFileRow ==
    op = "tile_file" =>
        /\ d_out[1] = d_arg[1]
        /\ d_out[2] = d_arg[2]
        /\ d_given \in {"xyz", "wmts"} => d_out[3] = d_arg[3]
        /\ d_given = "tms" => d_out[3] = 2^d_arg[1] - 1 - d_arg[3]
        /\ (d_arg = <<12, 2064, 1495>> /\ d_given = "wmts") => d_out[3] = 1495
        /\ (d_arg = <<12, 2064, 1495>> /\ d_given = "tms") => d_out[3] = 2600
        /\ \A t1, t2 \in FileTiles :
              t1 # t2 => Disk_tile_file(d_scheme, t1) # Disk_tile_file(d_scheme, t2)

\* tile_file was asked for (12,2064,1495) on a cache configured as wmts
C12_Witness ==
    /\ op = "tile_file" /\ d_given = "wmts"
    /\ d_arg = <<12, 2064, 1495>> /\ d_out = <<12, 2064, 1495>>

\* C13: the scheme of a Disk cache is always tms or xyz: tms at construction;
\* assigning wmts stores xyz, assigning xyz or tms stores it; assigning anything
\* else raises AssertionError and leaves the scheme as it was
C13_SchemeIsTmsOrXyz ==
    /\ [](d_scheme \in {"tms", "xyz"})
    /\ [](op = "init" => d_scheme = "tms")
    /\ [][op' = "scheme" =>
            /\ d_arg' = "wmts" => (result' = "ok" /\ d_scheme' = "xyz")
            /\ d_arg' \in {"xyz", "tms"} => (result' = "ok" /\ d_scheme' = d_arg')
            /\ d_arg' \notin {"wmts", "xyz", "tms"} =>
                  (result' = "AssertionError" /\ d_scheme' = d_scheme)]_vars

\* an unknown scheme was refused on a cache whose scheme was xyz
C13_Witness ==
    /\ op = "scheme" /\ d_arg = "bad" /\ result = "AssertionError"
    /\ d_scheme = "xyz"

\* C14: after any sequence of basename assignments the folder of a Disk cache is
\* its root joined with the sanitized form of the last basename assigned, the
\* root is the one it was built with, and assigning the current basename again
\* leaves the folder as it is
C14_FolderFollowsLastBasename ==
    /\ [](d_kind = "disk" =>
            /\ d_basefolder = Root
            /\ d_folder = join(Root, Sanitize(d_basename)))
    /\ [][(op' = "basename" /\ d_arg' = d_basename) => d_folder' = d_folder]_vars

\* a basename with an upper-case letter and a separator was assigned
C14_Witness ==
    /\ op = "basename" /\ d_basename = <<"B", "/">>
    /\ d_folder = Append(Root, <<"b", "_">>)

\* the folder segment the basename setter computed
Subfolder == IF d_folder = d_basefolder THEN <<>> ELSE d_folder[Len(d_folder)]

\* C15: the folder segment computed by the basename setter holds only
\* characters of [A-Za-z0-9_]
C15_SubfolderIsSafe ==
    (d_kind = "disk" /\ op \in {"init", "basename"}) =>
        \A i \in 1..Len(Subfolder) :
            Subfolder[i] \in LowerLetters \cup UpperLetters \cup Digits \cup {"_"}

\* C16: on a Disk cache, after any sequence of save / remove / clean, read(k)
\* gives the body of the last save(k) that no remove(k) or clean() followed, and
\* None, without raising, when there is none: so a save on one coordinate leaves
\* what read gives for the others; after a save the parent directories of the
\* tile file exist
C16_ReadGivesLastSave ==
    d_kind = "disk" =>
        /\ \A k \in CacheKeys : Disk_read(d_fs, d_folder, d_scheme, k) = d_saved[k]
        /\ op = "read" => (result = "ok" /\ d_out = d_saved[d_arg])
        /\ op = "save" =>
              \A n \in 1..3 :
                  IsDir(d_fs, SubSeq(Disk_tile_fullpath(d_folder, d_scheme, d_arg),
                                     1, Len(d_folder) + n - 1))

\* a body was read back while another coordinate holds the empty body
C16_Witness ==
    /\ op = "read" /\ d_kind = "disk" /\ d_out = "a"
    /\ \E k \in CacheKeys \ {d_arg} : d_saved[k] = ""

\* C17: Disk.remove(k) removes no directory above the x directory, the z
\* directory and the folder of the cache: the directory that holds the folder
\* is still there after it
C17_RemoveStopsAtFolder ==
    (d_kind = "disk" /\ op = "remove" /\ result = "ok") =>
        IsDir(d_fs, dirname(d_folder))

\* C18: Disk.clean() removes the folder of the cache: afterwards the folder does
\* not exist and read misses for every coordinate; on a missing folder it raises
\* nothing and changes nothing; a later save makes the folder again
C18_CleanRemovesFolder ==
    /\ []((d_kind = "disk" /\ op = "clean") =>
            /\ result = "ok"
            /\ ~IsDir(d_fs, d_folder)
            /\ \A k \in CacheKeys : Disk_read(d_fs, d_folder, d_scheme, k) = "None")
    /\ []((d_kind = "disk" /\ op = "save") => IsDir(d_fs, d_folder))
    /\ [][(d_kind = "disk" /\ op' = "clean" /\ ~IsDir(d_fs, d_folder))
             => (d_fs' = d_fs /\ result' = "ok")]_vars

\* clean was called and the folder of the cache is gone
C18_Witness ==
    /\ d_kind = "disk" /\ op = "clean"
    /\ ~IsDir(d_fs, d_folder)

\* the directory a manager has as tiles_dir
TilesDir == IF same_dir THEN "tmp" ELSE "tiles"

\* C19 (as the code has it): a Dummy cache never returns a body, never raises
\* and leaves the file system alone; a manager built with cache=False asks the
\* source at every request, and creates no file in tiles_dir when tiles_dir is
\* not the temporary directory
C19_NothingCached ==
    /\ [](d_kind = "dummy" => (result = "ok" /\ d_out = "None"))
    /\ [][d_kind = "dummy" => d_fs' = d_fs]_vars
    /\ []((~cache /\ op = "tile") =>
            /\ fetched = {asked}
            /\ ~same_dir => fs["tiles"] = NoDir)

\* a manager without cache, asked two tiles, got its third tile from the source
C19_Witness ==
    /\ ~cache /\ ~same_dir /\ op = "tile" /\ result = "ok"
    /\ rendered = 3 /\ fetched = {asked}

\* C19 as claimed: a manager built with cache=False never creates a file in
\* tiles_dir
C19_Original ==
    ~cache => FilesIn(fs, TilesDir) = {}

\* C20: MBTilesReader.tile(z, x, y) looks rows up under zoom z, column x and
\* row 2^z - 1 - y: when the archive holds data under that key the call
\* returns such data (and no data stored under another key only), and when it
\* holds none the call raises ExtractionError; the archive is left as it was.
C20_TileReadsFlippedRow ==
    op = "mbtiles_tile" =>
        LET z == mb_arg[1]
            x == mb_arg[2]
            y == mb_arg[3]
            held == {r \in mb_tiles :
                        r[1] = z /\ r[2] = x /\ r[3] = 2^z - 1 - y}
        IN  IF held = {}
            THEN result = "ExtractionError" /\ mb_out = "None"
            ELSE result = "ok" /\ mb_out \in {r[4] : r \in held}

\* tile(1, 0, 0) returned the data of row 1 while the archive holds other data
\* under row 0
C20_Witness ==
    /\ op = "mbtiles_tile"
    /\ result = "ok"
    /\ mb_arg = <<1, 0, 0>>
    /\ mb_out = "a"
    /\ mb_tiles = {<<1, 0, 1, "a">>, <<1, 0, 0, "">>}

\* C21: a run that raises InvalidCoverageError has had no effect on the file
\* system before: the staging and cache directories and the destination are as
\* they were, and no tile was fetched
C21_InvalidCoverageBeforeIO ==
    [][(op' = "run" /\ result' = "InvalidCoverageError") =>
          (fs' = fs /\ dest' = dest /\ fetched' = {})]_vars

\* C22: workers that save different coordinates on one cache in parallel all
\* complete without error, and once they have each coordinate reads back the
\* body its worker saved
C22_ParallelSavesSucceed ==
    /\ \A w \in DOMAIN workers : workers[w].pc # "OSError"
    /\ (\A w \in DOMAIN workers : workers[w].pc = "done") =>
          \A w \in DOMAIN workers :
             Disk_read(d_fs, d_folder, d_scheme, workers[w].t) = workers[w].body

\* the marks of the layers of ls whose source gave a tile, in registration order
RECURSIVE Pasted(_, _)
Pasted(ls, got) ==
    IF ls = <<>> THEN <<>>
    ELSE (IF got[1] = "ok" THEN << <<"paste", ls[1][1], ls[1][2]>> >> ELSE <<>>)
         \o Pasted(Tail(ls), Tail(got))

\* C23: when the base tile was obtained, tile returns an image whatever the
\* layers' sources raised: the base, then the layers whose tile was obtained,
\* in registration order, then every filter in registration order; no
\* exception of a layer reaches the caller
C23_FailedOverlayIsOmitted ==
    (op = "pipeline_tile" /\ t_drawn.base = "ok") =>
        /\ result = "ok"
        /\ t_out = <<d_arg>> \o Pasted(layers, t_drawn.layers)
                   \o [i \in 1..Len(filters) |->
                          <<"filter", Filter_basename(filters[i])>>]

\* a tile was returned with its one layer left out, the source of the layer
\* having raised, and with the filter applied
C23_Witness ==
    /\ op = "pipeline_tile" /\ result = "ok"
    /\ Len(layers) = 1 /\ Len(filters) = 1
    /\ t_drawn.base = "ok"
    /\ t_drawn.layers[1] = "ExtractionError"
    /\ t_out = <<d_arg, <<"filter", Filter_basename(filters[1])>> >>

\* the sequences of registrations a manager can have had: <<"layer", basename,
\* opacity>> for add_layer, <<"filter", filter>> for add_filter
Registrations ==
    {<<"layer", n, o>> : n \in LayerNames, o \in Opacities}
        \cup {<<"filter", f>> : f \in FilterSet}
Chains == UNION {[1..n -> Registrations] : n \in 0..MaxChain}

\* the layers and the filters a sequence of registrations leaves on the manager
LayersOf(c) ==
    LET ls == SelectSeq(c, LAMBDA r : r[1] = "layer")
    IN  [i \in 1..Len(ls) |-> <<ls[i][2], ls[i][3]>>]
FiltersOf(c) ==
    LET fl == SelectSeq(c, LAMBDA r : r[1] = "filter")
    IN  [i \in 1..Len(fl) |-> fl[i][2]]

\* the basename and the folder of the cache after the registrations of c on a
\* manager whose source is the one of the pipeline
RECURSIVE BasenameAfter(_, _)
BasenameAfter(name, c) ==
    IF c = <<>> THEN name
    ELSE BasenameAfter(name \o (IF c[1][1] = "layer"
                                THEN LayerFragment(c[1][2], c[1][3])
                                ELSE FilterFragment(c[1][2])),
                       Tail(c))
FolderAfter(c) == basename_setter(Root, Root, BasenameAfter(<<"a">>, c)).folder

Cells(grid) == Concat(grid)

\* C25: the rows of the grid of grid_tiles(bbox, zoom) are in ascending y, each
\* row holds cells (x, y) of its y in ascending x, and the cells are the tiles
\* of tileslist(bbox, [zoom]), each exactly once; the whole world gives
\* [[(0,0)]] at zoom 0 and [[(0,0),(1,0)],[(0,1),(1,1)]] at zoom 1
C25_GridIsRowMajor ==
    (op = "grid_tiles" /\ result = "ok") =>
        LET grid == call_out
            z == call_arg[2]
            tiles == tileslist(call_arg[1], <<z>>).tiles
        IN  /\ \A j \in 1..Len(grid) :
                 /\ Len(grid[j]) > 0
                 /\ \A i \in 1..Len(grid[j]) : grid[j][i][2] = grid[j][1][2]
                 /\ \A i \in 1..(Len(grid[j]) - 1) : grid[j][i][1] < grid[j][i + 1][1]
            /\ \A j \in 1..(Len(grid) - 1) : grid[j][1][2] < grid[j + 1][1][2]
            /\ Len(Cells(grid)) = Len(tiles)
            /\ \A i \in 1..Len(tiles) :
                 Cardinality({k \in 1..Len(Cells(grid)) :
                                 Cells(grid)[k] = <<tiles[i][2], tiles[i][3]>>}) = 1
            /\ (call_arg[1] = World /\ z = 0) => grid = << << <<0, 0>> >> >>
            /\ (call_arg[1] = World /\ z = 1) =>
                 grid = << << <<0, 0>>, <<1, 0>> >>, << <<0, 1>>, <<1, 1>> >> >>

\* the grid of the whole world at zoom 1 was built
C25_Witness ==
    /\ op = "grid_tiles" /\ result = "ok"
    /\ call_arg = <<World, 1>>
    /\ call_out = << << <<0, 0>>, <<1, 0>> >>, << <<0, 1>>, <<1, 1>> >> >>

\* C26: for a non-empty list of subdomains and a tile with x, y >= 0, the index
\* (x + y) mod len(subdomains) is in the list, the URL is made with the
\* subdomain at that index (counted from 0), whatever was asked before: the
\* URL depends on the list and on the coordinate only
C26_SubdomainIsDeterministic ==
    (op = "download_url" /\ Len(call_arg[1]) > 0) =>
        LET n == Len(call_arg[1])
            x == call_arg[2][2]
            y == call_arg[2][3]
        IN  /\ result = "ok"
            /\ (x + y) % n \in 0..(n - 1)
            /\ call_out = <<call_arg[1][((x + y) % n) + 1], call_arg[2][1], x, y>>

\* with subdomains a, b, c the URL of tile (2, 3, 2) was made with subdomain c
C26_Witness ==
    /\ op = "download_url" /\ result = "ok"
    /\ call_arg = << <<"a", "b", "c">>, <<2, 3, 2>> >>
    /\ call_out = <<"c", 2, 3, 2>>

\* C29: a CustomTileSet of EPSG:3857, tile size 256 and the world extent gives,
\* for a position, the tile GoogleProjection.tile_at gives and, for a valid
\* bounding box and zoom levels, the set of tiles of the standard tileslist
C29_CustomMatchesGoogle ==
    /\ op = "custom_tile_at" => call_out = tile_at(call_arg[1], call_arg[2])
    /\ (op = "custom_tileslist" /\ result = "ok") =>
          ToSet(call_out) = ToSet(tileslist(call_arg[1], call_arg[2]).tiles)

C28_FlipIsInvolution ==
    d_kind = "disk" =>
        /\ \A k \in CacheKeys :
              \E f \in {Disk_tile_file(d_scheme, k)} :
                  /\ f[3] \in 0..(2^k[1] - 1)
                  /\ Disk_tile_file(d_scheme, f) = k
                  /\ d_saved[k] # "None" =>
                        IsFile(d_fs, d_folder \o <<Num(k[1]), Num(k[2]),
                                                  Append(Num(f[3]), ".png")>>)
        /\ (op = "read" /\ d_saved[d_arg] # "None") => d_out = d_saved[d_arg]

\* under tms the tile (1, 0, 0) was saved, sits at row 1 and was read back
C28_Witness ==
    /\ op = "read" /\ d_kind = "disk" /\ d_scheme = "tms"
    /\ d_arg = <<1, 0, 0>> /\ d_out = "a"
    /\ IsFile(d_fs, d_folder \o << <<"1">>, <<"0">>, <<"1", ".png">> >>)

\* C30: with the cache on, a tile request in which the source raises leaves no
\* file at the path of the tile in the cache, and the next request for the
\* same coordinate invokes the source again
C30_FailedFetchLeavesNoFile ==
    /\ []((cache /\ op = "tile" /\ result # "ok") =>
             fs[FullDir].files[tile_file(asked)] = "absent")
    /\ [][(cache /\ op = "tile" /\ result # "ok" /\ op' = "tile" /\ asked' = asked) =>
             fetched' = {asked}]_vars

\* C31: a run that raises because a tile could not be obtained or because the
\* coverage is empty leaves a destination file that existed before it as it
\* was; a run changes the destination only by a completed packaging step
C31_FailedRunKeepsDest ==
    /\ [][(/\ op' = "run"
            /\ result' \in {"DownloadError", "ExtractionError", "RuntimeError",
                            "EmptyCoverageError"}
            /\ dest.exists) => dest' = dest]_vars
    /\ [][(op' = "run" /\ dest' # dest) => packaged']_vars

\* C32: clean() and remove() of a Disk cache, whatever its basename, delete no
\* file and no directory of the folder of another source under the same root,
\* and do not delete the root
C32_MaintenanceIsConfined ==
    [][(d_kind = "disk" /\ op' \in {"clean", "remove"}) =>
          /\ IsDir(d_fs, Root) => IsDir(d_fs', Root)
          /\ \A q \in d_fs.dirs : Prefix(OtherFolder, q) => q \in d_fs'.dirs
          /\ \A e \in d_fs.files : Prefix(OtherFolder, e[1]) => e \in d_fs'.files]_vars

\* C33: when run reaches the packaging step the staging directory holds the
\* tiles of the union and nothing else: what is packaged is, for each tile
\* (z, x, y) of the union, the file z/x/(2^z - 1 - y), whatever the staging
\* directory held before the run; the source was invoked at most once per tile
\* and only for tiles of the union
C33_StagingIsTheUnion ==
    (op = "run" /\ packaged) =>
        /\ DestPaths = {<<t[1], t[2], 2^t[1] - 1 - t[3]>> : t \in DistinctTiles}
        /\ \A e \in dest.tiles : e[2] # "absent"
        /\ fetched \subseteq DistinctTiles
        /\ rendered = Cardinality(fetched)

\* a run over the north-west quarter at zoom 1 was packaged: its tile alone,
\* at row 1
C33_Witness ==
    /\ op = "run" /\ packaged
    /\ DistinctTiles = {<<1, 0, 0>>}
    /\ DestPaths = {<<1, 0, 1>>}

\* C34: rendered counts the tiles obtained from the source: a run that reaches
\* the loop over the tiles starts it at 0 and adds one for each tile the source
\* gave, nothing for a tile found in the cache or for the fetch that raised; so
\* 0 <= rendered <= nbtiles, and after a run that returned rendered is the
\* number of tiles of the coverage that the cache did not hold
C34_RenderedCountsFetches ==
    /\ rendered \in 0..nbtiles
    /\ (op = "run" /\ result \notin {"skipped", "InvalidCoverageError",
                                      "EmptyCoverageError"}) =>
        /\ result = "ok" =>
              /\ rendered = Cardinality(fetched)
              /\ rendered = Cardinality({t \in DistinctTiles :
                                            tile_file(t) \notin pre.cached})
        /\ result # "ok" => rendered = Cardinality(fetched) - 1

\* a run over five tiles returned after it took one tile from the cache and
\* four from the source
C34_Witness ==
    /\ op = "run" /\ result = "ok" /\ cache
    /\ nbtiles = 5 /\ rendered = 4

\* C35: over any sequence of tileslist calls the maxlevel of the projection
\* never decreases; its table holds, for each level 0..maxlevel-1, the pixel
\* extent tilesize * 2^level; and every zoom level a call projects at is below
\* maxlevel
C35_ProjectionOnlyGrows ==
    /\ [][proj_maxlevel' >= proj_maxlevel]_vars
    /\ [](\E Ac \in {GoogleProjection_Ac(DEFAULT_TILE_SIZE, proj_maxlevel)} :
            /\ Len(Ac) = proj_maxlevel
            /\ \A level \in 0..(proj_maxlevel - 1) :
                  Ac[level + 1] = DEFAULT_TILE_SIZE * 2^level)
    /\ []((op = "tileslist" /\ result = "ok") =>
            \A i \in 1..Len(tl_zooms) : tl_zooms[i] \in 0..(proj_maxlevel - 1))

\* the manager was asked zoom 0 after a call had grown the projection to three
\* levels
C35_Witness ==
    /\ op = "tileslist" /\ result = "ok"
    /\ tl_zooms = <<0>>
    /\ proj_maxlevel = 3

\* the index of the last row of the first run of column-adjacent rows
RunEnd ==
    IF \E i \in 1..(Len(fc.rows) - 1) : fc.rows[i + 1][1] - fc.rows[i][1] > 1
    THEN CHOOSE i \in 1..(Len(fc.rows) - 1) :
             /\ fc.rows[i + 1][1] - fc.rows[i][1] > 1
             /\ \A j \in 1..(i - 1) : fc.rows[j + 1][1] - fc.rows[j][1] <= 1
    ELSE Len(fc.rows)

\* C36: find_coverage(zoom) goes through the tiles of the zoom in (column, row)
\* order and ends; xmin is the column of the first tile, xmax the column of the
\* last tile before the first two consecutive tiles whose columns differ by more
\* than 1, or of the last tile when there is no such pair
C36_FirstRunOfColumns ==
    /\ [](fc.pc # "idle" =>
            /\ \A i \in 1..(Len(fc.rows) - 1) : PairBefore(fc.rows[i], fc.rows[i + 1])
            /\ {<<fc.zoom, fc.rows[i][1], fc.rows[i][2], "a">> : i \in 1..Len(fc.rows)}
                  = {r \in mb_tiles : r[1] = fc.zoom})
    /\ []((fc.pc = "done" /\ fc.rows # <<>>) =>
            /\ result = "ok"
            /\ fc.rect[1] = fc.rows[1][1]
            /\ fc.rect[3] = fc.rows[RunEnd][1])
    /\ (fc.pc = "loop") ~> (fc.pc = "done")

\* the scan stopped at column 1 of an archive that holds columns 0, 1 and 3
C36_Witness ==
    /\ fc.pc = "done" /\ result = "ok"
    /\ Len(fc.rows) = 3 /\ fc.rows[3][1] = 3
    /\ fc.rect[1] = 0 /\ fc.rect[3] = 1

\* C37: the rectangle of tiles (xmin..xmax, ymin..ymax) that find_coverage
\* turns into a bounding box holds every tile of the run it detected
C37_RectangleEnclosesRun ==
    (fc.pc = "done" /\ fc.rows # <<>>) =>
        /\ fc.rect[1] <= fc.rect[3]
        /\ fc.rect[2] <= fc.rect[4]
        /\ \A i \in 1..RunEnd :
              /\ fc.rows[i][1] \in fc.rect[1]..fc.rect[3]
              /\ fc.rows[i][2] \in fc.rect[2]..fc.rect[4]

====
